---- MODULE Spec2Model ----
(***************************************************************************)
(* xml2gpui: the markup parser / tree builder (parse_xml), the element     *)
(* renderer (render_component) and the utility-class engine                *)
(* (set_attributes, hex_to_rgba, extract_length_from_class_name) of        *)
(* crates/xml2gpui/src/tree.rs, with the match generated by the            *)
(* tailwind_to_gpui macro of crates/xml2gpui_macros/src/lib.rs.            *)
(*                                                                         *)
(* Strings the code inspects character by character (element names,       *)
(* attribute keys and values, class tokens, text) are sequences of         *)
(* one-character strings.                                                  *)
(***************************************************************************)
EXTENDS Integers, Sequences, FiniteSets, TLC

VARIABLES
    pc,        \* where the program is: "parsing" | "parsed" | "rendered" |
               \* "set_attributes" | "class_loop" | "styled" | "call" |
               \* "returned", and "panicked" once it has panicked
    vocab,     \* the tags, close names and text runs the document is written with
    doc,       \* ghost: the elements of the document read so far
    opened,    \* the reader's stack of open elements (check_end_names)
    pending,   \* the reader owes the End of an expanded self-closing tag
    nread,     \* number of markup items read from the document
    event,     \* ghost: the event handled last
    stack,     \* parse_xml: stack of in-progress Components
    result,    \* parse_xml's return value (<<>> while parsing)
    rendered,  \* render_component's return value (<<>> before it returns)
    class_list, \* set_attributes: the class names the loop has still to handle
    styled,    \* set_attributes: the style mutations applied to the element so far
    input,     \* the argument of a call of set_attributes (the attributes),
               \* hex_to_rgba or extract_length_from_class_name (the string)
    output     \* its return value (<<>> before it returns)

parseVars == <<vocab, doc, opened, pending, nread, event, stack, result, rendered>>

fnVars == <<class_list, styled, input, output>>

vars == <<pc, parseVars, fnVars>>

-----------------------------------------------------------------------------
(* Bounds of the model *)

\* markup items (tags, text runs) of a document
MaxItems == 4

\* class names in a class attribute
MaxTokens == 3

\* characters of a string handed to extract_length_from_class_name
MaxLen == 4

\* hex digits of a string handed to hex_to_rgba
MaxHexLen == 8

-----------------------------------------------------------------------------
(* Character strings *)

StartsWith(s, p) == Len(s) >= Len(p) /\ SubSeq(s, 1, Len(p)) = p

\* the characters of s from position i (1-based) to its end
From(s, i) == SubSeq(s, i, Len(s))

\* position of the first occurrence of character c in s, 0 when absent
IndexOf(s, c) ==
    IF \E i \in 1..Len(s) : s[i] = c
    THEN CHOOSE i \in 1..Len(s) : s[i] = c /\ \A j \in 1..(i - 1) : s[j] # c
    ELSE 0

Last(s) == s[Len(s)]
Front(s) == SubSeq(s, 1, Len(s) - 1)

\* str::to_lowercase on the letters element names are written with
LowerChar(c) ==
    CASE c = "D" -> "d" [] c = "I" -> "i" [] c = "V" -> "v" [] OTHER -> c

ToLower(s) == [i \in 1..Len(s) |-> LowerChar(s[i])]

s_div == <<"d", "i", "v">>
s_img == <<"i", "m", "g">>
s_svg == <<"s", "v", "g">>
s_src == <<"s", "r", "c">>
s_path == <<"p", "a", "t", "h">>
s_font == <<"f", "o", "n", "t">>
s_class == <<"c", "l", "a", "s", "s">>
s_error == <<"e", "r", "r", "o", "r">>

-----------------------------------------------------------------------------
(* The reader: quick_xml configured at tree.rs:17-21 *)

\* reader.expand_empty_elements(true): <a/> is delivered as Start then End
ExpandEmptyElements == TRUE

\* reader.check_end_names(true): a close tag must name the innermost open tag
CheckEndNames == TRUE

\* reader.trim_text(true): white space around a text run is dropped
IsSpace(c) == c \in {" ", "\n", "\t"}

RECURSIVE TrimStart(_)
TrimStart(s) ==
    IF s # <<>> /\ IsSpace(s[1]) THEN TrimStart(Tail(s)) ELSE s

RECURSIVE TrimEnd(_)
TrimEnd(s) ==
    IF s # <<>> /\ IsSpace(Last(s)) THEN TrimEnd(Front(s)) ELSE s

TrimText(s) == TrimEnd(TrimStart(s))

\* the predefined entities that unescape() resolves
EntityNames == {<<"a", "m", "p">>, <<"l", "t">>, <<"g", "t">>}

EntityChar(name) ==
    CASE name = <<"a", "m", "p">> -> "&"
      [] name = <<"l", "t">> -> "<"
      [] name = <<"g", "t">> -> ">"

\* unescape() / decode_and_unescape_value(): [ok, value]; an unknown or
\* unterminated entity reference is an Err
RECURSIVE Unescape(_)
Unescape(s) ==
    IF s = <<>> THEN [ok |-> TRUE, value |-> <<>>]
    ELSE IF s[1] # "&"
    THEN LET r == Unescape(Tail(s))
         IN  [ok |-> r.ok, value |-> IF r.ok THEN <<s[1]>> \o r.value ELSE <<>>]
    ELSE LET semi == IndexOf(s, ";")
         IN  IF semi = 0 \/ SubSeq(s, 2, semi - 1) \notin EntityNames
             THEN [ok |-> FALSE, value |-> <<>>]
             ELSE LET r == Unescape(From(s, semi + 1))
                  IN  [ok |-> r.ok,
                       value |-> IF r.ok
                                 THEN <<EntityChar(SubSeq(s, 2, semi - 1))>> \o r.value
                                 ELSE <<>>]

\* QName::local_name(): the part after the first ':' (the whole name without one)
LocalName(name) ==
    IF IndexOf(name, ":") = 0 THEN name ELSE From(name, IndexOf(name, ":") + 1)

-----------------------------------------------------------------------------
(* parse_xml *)

\* tree.rs:32-47: one (key, value) pair per attribute the reader yields; an
\* attribute the reader rejects becomes ("error", "error")
AttributePair(a) ==
    IF a.ok THEN <<LocalName(a.key), Unescape(a.value).value>>
    ELSE <<s_error, s_error>>

\* tree.rs:39: decode_and_unescape_value(..).unwrap()
AttributesPanic(attrs) ==
    \E i \in 1..Len(attrs) : attrs[i].ok /\ ~Unescape(attrs[i].value).ok

\* variant of ElemName: the local name is lower-cased before it is stored
ElemNameLowerCased(name) == ToLower(LocalName(name))

\* tree.rs:31: the element's name as stored in Component.elem
ElemName(name) == LocalName(name)

\* tree.rs:49-54 (id is a ghost field: the element's position in the document)
NewComponent(id, name, attrs) ==
    [id |-> id,
     elem |-> ElemName(name),
     text |-> <<>>,
     attributes |-> [i \in 1..Len(attrs) |-> AttributePair(attrs[i])],
     children |-> <<>>]

\* variant of PushChild: the component is put before its siblings
PushChildFirst(stk, c) ==
    [stk EXCEPT ![Len(stk)].children = <<c>> \o @]

\* parent.children.push(component) on the top of the stack
PushChild(stk, c) ==
    [stk EXCEPT ![Len(stk)].children = Append(@, c)]

\* variant of OnStartOrEmpty: an element with a parent is attached to it
\* when it is opened and pushed as well
OnStartOrEmptyAttached(stk, isEmpty, component) ==
    IF Len(stk) > 0
    THEN IF isEmpty THEN [stk EXCEPT ![Len(stk)].children = Append(@, component)]
         ELSE Append([stk EXCEPT ![Len(stk)].children = Append(@, component)], component)
    ELSE IF isEmpty THEN stk ELSE Append(stk, component)

\* tree.rs:56-64
OnStartOrEmpty(stk, isEmpty, component) ==
    IF isEmpty
    THEN IF Len(stk) > 0 THEN PushChild(stk, component) ELSE stk
    ELSE Append(stk, component)

\* variant of OnEnd: the close of the last frame pops it
OnEndPopsRoot(stk) ==
    IF Len(stk) > 1
    THEN [Front(stk) EXCEPT ![Len(stk) - 1].children = Append(@, Last(stk))]
    ELSE IF stk = <<>> THEN stk ELSE Front(stk)

\* variant of OnEnd: the frame popped is not attached to its parent
OnEndPopsOnly(stk) ==
    IF Len(stk) > 1 THEN Front(stk) ELSE stk

\* tree.rs:66-73
OnEnd(stk) ==
    IF Len(stk) > 1 THEN PushChild(Front(stk), Last(stk)) ELSE stk

\* variant of OnText: a later text run is appended to the earlier text
OnTextAppends(stk, text) ==
    IF Len(stk) > 0
    THEN [stk EXCEPT ![Len(stk)].text =
             IF @ = <<>> THEN <<text>> ELSE <<@[1] \o text>>]
    ELSE stk

\* tree.rs:74-79 (text is already unescaped)
OnText(stk, text) ==
    IF Len(stk) > 0 THEN [stk EXCEPT ![Len(stk)].text = <<text>>] ELSE stk

\* tree.rs:88-92
ErrorComponent ==
    [id |-> 0, elem |-> s_error, text |-> <<s_error>>,
     attributes |-> <<>>, children |-> <<>>]

\* tree.rs:87
PopOrError(stk) ==
    IF Len(stk) > 0 THEN Last(stk) ELSE ErrorComponent

-----------------------------------------------------------------------------
(* Colours and lengths *)

HexDigits ==
    {"0", "1", "2", "3", "4", "5", "6", "7", "8", "9",
     "a", "b", "c", "d", "e", "f", "A", "B", "C", "D", "E", "F"}

HexValue(c) ==
    CASE c = "0" -> 0 [] c = "1" -> 1 [] c = "2" -> 2 [] c = "3" -> 3
      [] c = "4" -> 4 [] c = "5" -> 5 [] c = "6" -> 6 [] c = "7" -> 7
      [] c = "8" -> 8 [] c = "9" -> 9
      [] c \in {"a", "A"} -> 10 [] c \in {"b", "B"} -> 11
      [] c \in {"c", "C"} -> 12 [] c \in {"d", "D"} -> 13
      [] c \in {"e", "E"} -> 14 [] c \in {"f", "F"} -> 15

\* u32::from_str_radix(s, 16): [ok, value]; one leading '+' is accepted, an
\* empty string or any other character is an Err
FromStrRadix16(s) ==
    LET digits == IF s # <<>> /\ s[1] = "+" THEN Tail(s) ELSE s
    IN  IF digits = <<>> \/ \E i \in 1..Len(digits) : digits[i] \notin HexDigits
        THEN [ok |-> FALSE, value |-> 0]
        ELSE [ok |-> TRUE,
              value |-> IF Len(digits) = 1 THEN HexValue(digits[1])
                        ELSE 16 * HexValue(digits[1]) + HexValue(digits[2])]

\* hex.trim_start_matches('#')
RECURSIVE TrimStartHash(_)
TrimStartHash(s) ==
    IF s # <<>> /\ s[1] = "#" THEN TrimStartHash(Tail(s)) ELSE s

\* &hex[lo..hi] (0-based, hi exclusive): [ok, value]; out of range panics
Slice(s, lo, hi) ==
    IF lo <= hi /\ hi <= Len(s)
    THEN [ok |-> TRUE, value |-> SubSeq(s, lo + 1, hi)]
    ELSE [ok |-> FALSE, value |-> <<>>]

\* &hex[lo..hi] parsed base 16 and unwrapped: [ok, value]
HexPair(s, lo, hi) ==
    IF Slice(s, lo, hi).ok THEN FromStrRadix16(Slice(s, lo, hi).value)
    ELSE [ok |-> FALSE, value |-> 0]

\* a u32 word as its two 16-bit halves <<high, low>>
U32(x) == <<(x \div 65536) % 65536, x % 65536>>

\* w << 8 on u32 (bits shifted past bit 31 are lost)
Shl8(w) == <<(w[1] * 256 + w[2] \div 256) % 65536, (w[2] * 256) % 65536>>

\* w << 16 on u32
Shl16(w) == <<w[2], 0>>

\* bitwise or of two n-bit numbers
RECURSIVE OrBits(_, _, _)
OrBits(p, q, n) ==
    IF n = 0 THEN 0
    ELSE (IF p % 2 = 1 \/ q % 2 = 1 THEN 1 ELSE 0)
         + 2 * OrBits(p \div 2, q \div 2, n - 1)

\* v | w on u32
Or32(v, w) == <<OrBits(v[1], w[1], 16), OrBits(v[2], w[2], 16)>>

\* variant of PackRgba: green is shifted by 8 bits like blue
PackRgbaNarrow(r, g, b, a) ==
    Or32(Or32(Or32(Shl8(Shl16(U32(r))), Shl8(U32(g))), Shl8(U32(b))), U32(a))

\* tree.rs:181: (r << 24) | (g << 16) | (b << 8) | a on u32
PackRgba(r, g, b, a) ==
    Or32(Or32(Or32(Shl8(Shl16(U32(r))), Shl16(U32(g))), Shl8(U32(b))), U32(a))

\* gpui's rgba(u32): the four channels of the packed word (each over 255)
Rgba(value) ==
    [r |-> value[1] \div 256,
     g |-> value[1] % 256,
     b |-> value[2] \div 256,
     a |-> value[2] % 256]

NoColor == [r |-> 0, g |-> 0, b |-> 0, a |-> 0]

\* tree.rs:171-182: the Rgba of the four channels, unless an unwrap or a
\* slice panicked
HexChannels(r, g, b, a) ==
    IF r.ok /\ g.ok /\ b.ok /\ a.ok
    THEN LET value == PackRgba(r.value, g.value, b.value, a.value)
         IN  [ok |-> TRUE, value |-> value, color |-> Rgba(value)]
    ELSE [ok |-> FALSE, value |-> U32(0), color |-> NoColor]

\* tree.rs:171-178: the three pairs, and the alpha pair of eight digits
HexPairs(hex) ==
    HexChannels(HexPair(hex, 0, 2), HexPair(hex, 2, 4), HexPair(hex, 4, 6),
                IF Len(hex) = 8 THEN HexPair(hex, 6, 8) ELSE [ok |-> TRUE, value |-> 255])

\* tree.rs:169-183: [ok, value, color]; ok = FALSE is a panic (a slice out of
\* range or an unwrap of an Err)
hex_to_rgba(hex0) == HexPairs(TrimStartHash(hex0))

Digits == {"0", "1", "2", "3", "4", "5", "6", "7", "8", "9"}

\* c.is_digit(10) || c == '.'
IsNumeric(c) == c \in Digits \/ c = "."

RECURSIVE SkipWhileNumeric(_)
SkipWhileNumeric(s) ==
    IF s # <<>> /\ IsNumeric(s[1]) THEN SkipWhileNumeric(Tail(s)) ELSE s

RECURSIVE SkipWhileNotNumeric(_)
SkipWhileNotNumeric(s) ==
    IF s # <<>> /\ ~IsNumeric(s[1]) THEN SkipWhileNotNumeric(Tail(s)) ELSE s

RECURSIVE TakeWhileNumeric(_)
TakeWhileNumeric(s) ==
    IF s # <<>> /\ IsNumeric(s[1]) THEN <<s[1]>> \o TakeWhileNumeric(Tail(s)) ELSE <<>>

\* tree.rs:337-341
NumericPart(class_name) == TakeWhileNumeric(SkipWhileNotNumeric(class_name))

\* variant of UnitPart: the unit is what follows the number, wherever the
\* number starts
UnitPartAfterNumber(class_name) ==
    SkipWhileNumeric(SkipWhileNotNumeric(class_name))

\* tree.rs:343-346
UnitPart(class_name) == SkipWhileNumeric(class_name)

\* the decimal number mant / 10^scale without trailing fraction zeros
RECURSIVE Normalize(_, _)
Normalize(mant, scale) ==
    IF scale > 0 /\ mant % 10 = 0 THEN Normalize(mant \div 10, scale - 1)
    ELSE [mant |-> mant, scale |-> scale]

RECURSIVE DigitsValue(_)
DigitsValue(s) ==
    IF s = <<>> THEN 0 ELSE 10 * DigitsValue(Front(s)) + HexValue(Last(s))

\* tree.rs:348: numeric_part.parse::<f32>().unwrap_or_default() on a string
\* of digits and dots: a number needs a digit and at most one dot, anything
\* else is an Err and gives 0.0 (values are exact decimals here)
ParseF32OrDefault(s) ==
    LET dots == {i \in 1..Len(s) : s[i] = "."}
        nodot == [i \in 1..(Len(s) - 1) |->
                    IF i < IndexOf(s, ".") THEN s[i] ELSE s[i + 1]]
    IN  IF Cardinality(dots) > 1 \/ Len(s) = Cardinality(dots)
        THEN [mant |-> 0, scale |-> 0]
        ELSE IF dots = {} THEN [mant |-> DigitsValue(s), scale |-> 0]
        ELSE Normalize(DigitsValue(nodot), Len(s) - IndexOf(s, "."))

s_font_dash == <<"f", "o", "n", "t", "-">>
s_bg_prefix == <<"b", "g", "-", "[", "#">>
s_text_color_prefix == <<"t", "e", "x", "t", "-", "c", "o", "l", "o", "r", "-", "[", "#">>
s_border_color_prefix == <<"b", "o", "r", "d", "e", "r", "-", "[", "#">>
s_rounded_prefix == <<"r", "o", "u", "n", "d", "e", "d", "-">>
s_border_prefix == <<"b", "o", "r", "d", "e", "r", "-">>
s_px == <<"p", "x">>
s_rem == <<"r", "e", "m">>

Pixels(v) == [unit |-> "px", mant |-> v.mant, scale |-> v.scale]
Rems(v) == [unit |-> "rem", mant |-> v.mant, scale |-> v.scale]
NoLength == [unit |-> "none", mant |-> 0, scale |-> 0]

\* tree.rs:350-354
LengthOf(unit_part, rounded_value) ==
    CASE unit_part = s_px -> Pixels(rounded_value)
      [] unit_part = s_rem -> Rems(rounded_value)
      [] OTHER -> Pixels([mant |-> 0, scale |-> 0])

\* tree.rs:336-355
extract_length_from_class_name(class_name) ==
    LengthOf(UnitPart(class_name), ParseF32OrDefault(NumericPart(class_name)))

-----------------------------------------------------------------------------
(* set_attributes: the style mutations applied to an element, in order *)

\* tree.rs:205-274: the literal class lists handed to tailwind_to_gpui!
StaticClasses ==
    {
     \* tree.rs:205
     <<"f", "l", "e", "x">>, <<"f", "l", "e", "x", "-", "g", "r", "o", "w">>,
     <<"f", "l", "e", "x", "-", "s", "h", "r", "i", "n", "k">>,
     <<"f", "l", "e", "x", "-", "s", "h", "r", "i", "n", "k", "-", "0">>,
     \* tree.rs:207
     <<"f", "l", "e", "x", "-", "w", "r", "a", "p">>,
     <<"f", "l", "e", "x", "-", "w", "r", "a", "p", "-", "r", "e", "v", "e", "r", "s", "e">>,
     <<"f", "l", "e", "x", "-", "n", "o", "w", "r", "a", "p">>,
     \* tree.rs:209
     <<"c", "o", "n", "t", "e", "n", "t", "-", "n", "o", "r", "m", "a", "l">>,
     <<"c", "o", "n", "t", "e", "n", "t", "-", "c", "e", "n", "t", "e", "r">>,
     <<"c", "o", "n", "t", "e", "n", "t", "-", "s", "t", "a", "r", "t">>,
     <<"c", "o", "n", "t", "e", "n", "t", "-", "e", "n", "d">>,
     <<"c", "o", "n", "t", "e", "n", "t", "-", "b", "e", "t", "w", "e", "e", "n">>,
     <<"c", "o", "n", "t", "e", "n", "t", "-", "a", "r", "o", "u", "n", "d">>,
     <<"c", "o", "n", "t", "e", "n", "t", "-", "e", "v", "e", "n", "l", "y">>,
     <<"c", "o", "n", "t", "e", "n", "t", "-", "s", "t", "r", "e", "t", "c", "h">>,
     \* tree.rs:211
     <<"b", "l", "o", "c", "k">>, <<"a", "b", "s", "o", "l", "u", "t", "e">>,
     <<"r", "e", "l", "a", "t", "i", "v", "e">>, <<"v", "i", "s", "i", "b", "l", "e">>,
     <<"i", "n", "v", "i", "s", "i", "b", "l", "e">>,
     <<"o", "v", "e", "r", "f", "l", "o", "w", "-", "h", "i", "d", "d", "e", "n">>,
     <<"o", "v", "e", "r", "f", "l", "o", "w", "-", "x", "-", "h", "i", "d", "d", "e", "n">>,
     <<"o", "v", "e", "r", "f", "l", "o", "w", "-", "y", "-", "h", "i", "d", "d", "e", "n">>,
     \* tree.rs:213
     <<"i", "t", "e", "m", "s", "-", "s", "t", "a", "r", "t">>,
     <<"i", "t", "e", "m", "s", "-", "e", "n", "d">>,
     <<"i", "t", "e", "m", "s", "-", "c", "e", "n", "t", "e", "r">>,
     \* tree.rs:215
     <<"t", "o", "p", "-", "0">>, <<"t", "o", "p", "-", "1">>, <<"t", "o", "p", "-", "2">>,
     <<"t", "o", "p", "-", "3">>, <<"t", "o", "p", "-", "4">>, <<"t", "o", "p", "-", "5">>,
     <<"t", "o", "p", "-", "6">>, <<"t", "o", "p", "-", "8">>, <<"t", "o", "p", "-", "1", "0">>,
     <<"t", "o", "p", "-", "1", "2">>, <<"t", "o", "p", "-", "1", "6">>,
     <<"t", "o", "p", "-", "2", "0">>, <<"t", "o", "p", "-", "2", "4">>,
     <<"t", "o", "p", "-", "3", "2">>, <<"t", "o", "p", "-", "4", "0">>,
     <<"t", "o", "p", "-", "4", "8">>, <<"t", "o", "p", "-", "5", "6">>,
     <<"t", "o", "p", "-", "6", "4">>, <<"t", "o", "p", "-", "7", "2">>,
     <<"t", "o", "p", "-", "8", "0">>, <<"t", "o", "p", "-", "9", "6">>,
     <<"t", "o", "p", "-", "a", "u", "t", "o">>, <<"t", "o", "p", "-", "f", "u", "l", "l">>,
     <<"t", "o", "p", "-", "1", "/", "2">>, <<"t", "o", "p", "-", "1", "/", "3">>,
     <<"t", "o", "p", "-", "2", "/", "3">>, <<"t", "o", "p", "-", "1", "/", "4">>,
     <<"t", "o", "p", "-", "2", "/", "4">>, <<"t", "o", "p", "-", "3", "/", "4">>,
     <<"t", "o", "p", "-", "1", "/", "5">>, <<"t", "o", "p", "-", "2", "/", "5">>,
     <<"t", "o", "p", "-", "3", "/", "5">>,
     \* tree.rs:217
     <<"r", "i", "g", "h", "t", "-", "0">>, <<"r", "i", "g", "h", "t", "-", "1">>,
     <<"r", "i", "g", "h", "t", "-", "2">>, <<"r", "i", "g", "h", "t", "-", "3">>,
     <<"r", "i", "g", "h", "t", "-", "4">>, <<"r", "i", "g", "h", "t", "-", "5">>,
     <<"r", "i", "g", "h", "t", "-", "6">>, <<"r", "i", "g", "h", "t", "-", "8">>,
     <<"r", "i", "g", "h", "t", "-", "1", "0">>, <<"r", "i", "g", "h", "t", "-", "1", "2">>,
     <<"r", "i", "g", "h", "t", "-", "1", "6">>, <<"r", "i", "g", "h", "t", "-", "2", "0">>,
     <<"r", "i", "g", "h", "t", "-", "2", "4">>, <<"r", "i", "g", "h", "t", "-", "3", "2">>,
     <<"r", "i", "g", "h", "t", "-", "4", "0">>, <<"r", "i", "g", "h", "t", "-", "4", "8">>,
     <<"r", "i", "g", "h", "t", "-", "5", "6">>, <<"r", "i", "g", "h", "t", "-", "6", "4">>,
     <<"r", "i", "g", "h", "t", "-", "7", "2">>, <<"r", "i", "g", "h", "t", "-", "8", "0">>,
     <<"r", "i", "g", "h", "t", "-", "9", "6">>,
     <<"r", "i", "g", "h", "t", "-", "a", "u", "t", "o">>,
     <<"r", "i", "g", "h", "t", "-", "f", "u", "l", "l">>,
     <<"r", "i", "g", "h", "t", "-", "1", "/", "2">>,
     <<"r", "i", "g", "h", "t", "-", "1", "/", "3">>,
     <<"r", "i", "g", "h", "t", "-", "2", "/", "3">>,
     <<"r", "i", "g", "h", "t", "-", "1", "/", "4">>,
     <<"r", "i", "g", "h", "t", "-", "2", "/", "4">>,
     <<"r", "i", "g", "h", "t", "-", "3", "/", "4">>,
     <<"r", "i", "g", "h", "t", "-", "1", "/", "5">>,
     <<"r", "i", "g", "h", "t", "-", "2", "/", "5">>,
     <<"r", "i", "g", "h", "t", "-", "3", "/", "5">>,
     \* tree.rs:219
     <<"b", "o", "t", "t", "o", "m", "-", "0">>, <<"b", "o", "t", "t", "o", "m", "-", "1">>,
     <<"b", "o", "t", "t", "o", "m", "-", "2">>, <<"b", "o", "t", "t", "o", "m", "-", "3">>,
     <<"b", "o", "t", "t", "o", "m", "-", "4">>, <<"b", "o", "t", "t", "o", "m", "-", "5">>,
     <<"b", "o", "t", "t", "o", "m", "-", "6">>, <<"b", "o", "t", "t", "o", "m", "-", "8">>,
     <<"b", "o", "t", "t", "o", "m", "-", "1", "0">>,
     <<"b", "o", "t", "t", "o", "m", "-", "1", "2">>,
     <<"b", "o", "t", "t", "o", "m", "-", "1", "6">>,
     <<"b", "o", "t", "t", "o", "m", "-", "2", "0">>,
     <<"b", "o", "t", "t", "o", "m", "-", "2", "4">>,
     <<"b", "o", "t", "t", "o", "m", "-", "3", "2">>,
     <<"b", "o", "t", "t", "o", "m", "-", "4", "0">>,
     <<"b", "o", "t", "t", "o", "m", "-", "4", "8">>,
     <<"b", "o", "t", "t", "o", "m", "-", "5", "6">>,
     <<"b", "o", "t", "t", "o", "m", "-", "6", "4">>,
     <<"b", "o", "t", "t", "o", "m", "-", "7", "2">>,
     <<"b", "o", "t", "t", "o", "m", "-", "8", "0">>,
     <<"b", "o", "t", "t", "o", "m", "-", "9", "6">>,
     <<"b", "o", "t", "t", "o", "m", "-", "a", "u", "t", "o">>,
     <<"b", "o", "t", "t", "o", "m", "-", "f", "u", "l", "l">>,
     <<"b", "o", "t", "t", "o", "m", "-", "1", "/", "2">>,
     <<"b", "o", "t", "t", "o", "m", "-", "1", "/", "3">>,
     <<"b", "o", "t", "t", "o", "m", "-", "2", "/", "3">>,
     <<"b", "o", "t", "t", "o", "m", "-", "1", "/", "4">>,
     <<"b", "o", "t", "t", "o", "m", "-", "2", "/", "4">>,
     <<"b", "o", "t", "t", "o", "m", "-", "3", "/", "4">>,
     <<"b", "o", "t", "t", "o", "m", "-", "1", "/", "5">>,
     <<"b", "o", "t", "t", "o", "m", "-", "2", "/", "5">>,
     <<"b", "o", "t", "t", "o", "m", "-", "3", "/", "5">>,
     \* tree.rs:221
     <<"l", "e", "f", "t", "-", "0">>, <<"l", "e", "f", "t", "-", "1">>,
     <<"l", "e", "f", "t", "-", "2">>, <<"l", "e", "f", "t", "-", "3">>,
     <<"l", "e", "f", "t", "-", "4">>, <<"l", "e", "f", "t", "-", "5">>,
     <<"l", "e", "f", "t", "-", "6">>, <<"l", "e", "f", "t", "-", "8">>,
     <<"l", "e", "f", "t", "-", "1", "0">>, <<"l", "e", "f", "t", "-", "1", "2">>,
     <<"l", "e", "f", "t", "-", "1", "6">>, <<"l", "e", "f", "t", "-", "2", "0">>,
     <<"l", "e", "f", "t", "-", "2", "4">>, <<"l", "e", "f", "t", "-", "3", "2">>,
     <<"l", "e", "f", "t", "-", "4", "0">>, <<"l", "e", "f", "t", "-", "4", "8">>,
     <<"l", "e", "f", "t", "-", "5", "6">>, <<"l", "e", "f", "t", "-", "6", "4">>,
     <<"l", "e", "f", "t", "-", "7", "2">>, <<"l", "e", "f", "t", "-", "8", "0">>,
     <<"l", "e", "f", "t", "-", "9", "6">>, <<"l", "e", "f", "t", "-", "a", "u", "t", "o">>,
     <<"l", "e", "f", "t", "-", "f", "u", "l", "l">>,
     <<"l", "e", "f", "t", "-", "1", "/", "2">>, <<"l", "e", "f", "t", "-", "1", "/", "3">>,
     <<"l", "e", "f", "t", "-", "2", "/", "3">>, <<"l", "e", "f", "t", "-", "1", "/", "4">>,
     <<"l", "e", "f", "t", "-", "2", "/", "4">>, <<"l", "e", "f", "t", "-", "3", "/", "4">>,
     <<"l", "e", "f", "t", "-", "1", "/", "5">>, <<"l", "e", "f", "t", "-", "2", "/", "5">>,
     <<"l", "e", "f", "t", "-", "3", "/", "5">>,
     \* tree.rs:223
     <<"c", "u", "r", "s", "o", "r", "-", "d", "e", "f", "a", "u", "l", "t">>,
     <<"c", "u", "r", "s", "o", "r", "-", "p", "o", "i", "n", "t", "e", "r">>,
     <<"c", "u", "r", "s", "o", "r", "-", "t", "e", "x", "t">>,
     <<"c", "u", "r", "s", "o", "r", "-", "m", "o", "v", "e">>,
     <<"c", "u", "r", "s", "o", "r", "-", "n", "o", "t", "-", "a", "l", "l", "o", "w", "e", "d">>,
     <<"c", "u", "r", "s", "o", "r", "-", "c", "o", "n", "t", "e", "x", "t", "-", "m", "e", "n", "u">>,
     <<"c", "u", "r", "s", "o", "r", "-", "c", "r", "o", "s", "s", "h", "a", "i", "r">>,
     <<"c", "u", "r", "s", "o", "r", "-", "v", "e", "r", "t", "i", "c", "a", "l", "-", "t", "e", "x", "t">>,
     <<"c", "u", "r", "s", "o", "r", "-", "a", "l", "i", "a", "s">>,
     <<"c", "u", "r", "s", "o", "r", "-", "c", "o", "p", "y">>,
     <<"c", "u", "r", "s", "o", "r", "-", "n", "o", "-", "d", "r", "o", "p">>,
     <<"c", "u", "r", "s", "o", "r", "-", "g", "r", "a", "b">>,
     <<"c", "u", "r", "s", "o", "r", "-", "g", "r", "a", "b", "b", "i", "n", "g">>,
     <<"c", "u", "r", "s", "o", "r", "-", "c", "o", "l", "-", "r", "e", "s", "i", "z", "e">>,
     <<"c", "u", "r", "s", "o", "r", "-", "r", "o", "w", "-", "r", "e", "s", "i", "z", "e">>,
     <<"c", "u", "r", "s", "o", "r", "-", "n", "-", "r", "e", "s", "i", "z", "e">>,
     <<"c", "u", "r", "s", "o", "r", "-", "e", "-", "r", "e", "s", "i", "z", "e">>,
     <<"c", "u", "r", "s", "o", "r", "-", "s", "-", "r", "e", "s", "i", "z", "e">>,
     <<"c", "u", "r", "s", "o", "r", "-", "w", "-", "r", "e", "s", "i", "z", "e">>,
     \* tree.rs:225
     <<"j", "u", "s", "t", "i", "f", "y", "-", "c", "e", "n", "t", "e", "r">>,
     <<"j", "u", "s", "t", "i", "f", "y", "-", "b", "e", "t", "w", "e", "e", "n">>,
     <<"j", "u", "s", "t", "i", "f", "y", "-", "a", "r", "o", "u", "n", "d">>,
     <<"j", "u", "s", "t", "i", "f", "y", "-", "s", "t", "a", "r", "t">>,
     <<"j", "u", "s", "t", "i", "f", "y", "-", "e", "n", "d">>,
     \* tree.rs:227
     <<"f", "l", "e", "x", "-", "c", "o", "l">>, <<"f", "l", "e", "x", "-", "r", "o", "w">>,
     <<"f", "l", "e", "x", "-", "c", "o", "l", "_", "r", "e", "v", "e", "r", "s", "e">>,
     <<"f", "l", "e", "x", "-", "r", "o", "w", "_", "r", "e", "v", "e", "r", "s", "e">>,
     <<"f", "l", "e", "x", "-", "1">>, <<"f", "l", "e", "x", "-", "a", "u", "t", "o">>,
     <<"f", "l", "e", "x", "-", "i", "n", "i", "t", "i", "a", "l">>,
     <<"f", "l", "e", "x", "-", "n", "o", "n", "e">>,
     \* tree.rs:229
     <<"s", "h", "a", "d", "o", "w", "-", "s", "m">>,
     <<"s", "h", "a", "d", "o", "w", "-", "m", "d">>,
     <<"s", "h", "a", "d", "o", "w", "-", "l", "g">>,
     <<"s", "h", "a", "d", "o", "w", "-", "x", "l">>,
     <<"s", "h", "a", "d", "o", "w", "-", "2", "x", "l">>,
     \* tree.rs:231
     <<"h", "-", "0">>, <<"h", "-", "1">>, <<"h", "-", "2">>, <<"h", "-", "3">>,
     <<"h", "-", "4">>, <<"h", "-", "5">>, <<"h", "-", "6">>, <<"h", "-", "8">>,
     <<"h", "-", "1", "0">>, <<"h", "-", "1", "2">>, <<"h", "-", "1", "6">>,
     <<"h", "-", "2", "0">>, <<"h", "-", "2", "4">>, <<"h", "-", "3", "2">>,
     <<"h", "-", "4", "0">>, <<"h", "-", "4", "8">>, <<"h", "-", "5", "6">>,
     <<"h", "-", "6", "4">>, <<"h", "-", "7", "2">>, <<"h", "-", "8", "0">>,
     <<"h", "-", "9", "6">>, <<"h", "-", "a", "u", "t", "o">>, <<"h", "-", "f", "u", "l", "l">>,
     <<"h", "-", "1", "/", "2">>, <<"h", "-", "1", "/", "3">>, <<"h", "-", "2", "/", "3">>,
     <<"h", "-", "1", "/", "4">>, <<"h", "-", "2", "/", "4">>, <<"h", "-", "3", "/", "4">>,
     <<"h", "-", "1", "/", "5">>, <<"h", "-", "2", "/", "5">>, <<"h", "-", "3", "/", "5">>,
     <<"h", "-", "4", "/", "5">>, <<"h", "-", "1", "/", "6">>, <<"h", "-", "5", "/", "6">>,
     <<"h", "-", "1", "/", "1", "2">>,
     \* tree.rs:233
     <<"w", "-", "0">>, <<"w", "-", "1">>, <<"w", "-", "2">>, <<"w", "-", "3">>,
     <<"w", "-", "4">>, <<"w", "-", "5">>, <<"w", "-", "6">>, <<"w", "-", "8">>,
     <<"w", "-", "1", "0">>, <<"w", "-", "1", "2">>, <<"w", "-", "1", "6">>,
     <<"w", "-", "2", "0">>, <<"w", "-", "2", "4">>, <<"w", "-", "3", "2">>,
     <<"w", "-", "4", "0">>, <<"w", "-", "4", "8">>, <<"w", "-", "5", "6">>,
     <<"w", "-", "6", "4">>, <<"w", "-", "7", "2">>, <<"w", "-", "8", "0">>,
     <<"w", "-", "9", "6">>, <<"w", "-", "a", "u", "t", "o">>, <<"w", "-", "f", "u", "l", "l">>,
     <<"w", "-", "1", "/", "2">>, <<"w", "-", "1", "/", "3">>, <<"w", "-", "2", "/", "3">>,
     <<"w", "-", "1", "/", "4">>, <<"w", "-", "2", "/", "4">>, <<"w", "-", "3", "/", "4">>,
     <<"w", "-", "1", "/", "5">>, <<"w", "-", "2", "/", "5">>, <<"w", "-", "3", "/", "5">>,
     <<"w", "-", "4", "/", "5">>, <<"w", "-", "1", "/", "6">>, <<"w", "-", "5", "/", "6">>,
     <<"w", "-", "1", "/", "1", "2">>,
     \* tree.rs:235
     <<"m", "i", "n", "-", "h", "-", "0">>,
     <<"m", "i", "n", "-", "h", "-", "f", "u", "l", "l">>,
     <<"m", "i", "n", "-", "w", "-", "0">>,
     <<"m", "i", "n", "-", "w", "-", "f", "u", "l", "l">>,
     <<"m", "a", "x", "-", "h", "-", "0">>,
     <<"m", "a", "x", "-", "h", "-", "f", "u", "l", "l">>,
     <<"m", "a", "x", "-", "w", "-", "0">>,
     <<"m", "a", "x", "-", "w", "-", "f", "u", "l", "l">>,
     \* tree.rs:237
     <<"p", "-", "0">>, <<"p", "-", "1">>, <<"p", "-", "2">>, <<"p", "-", "3">>,
     <<"p", "-", "4">>, <<"p", "-", "5">>, <<"p", "-", "6">>, <<"p", "-", "8">>,
     <<"p", "-", "1", "0">>, <<"p", "-", "1", "2">>, <<"p", "-", "1", "6">>,
     <<"p", "-", "2", "0">>, <<"p", "-", "2", "4">>, <<"p", "-", "3", "2">>,
     <<"p", "-", "4", "0">>, <<"p", "-", "4", "8">>, <<"p", "-", "5", "6">>,
     <<"p", "-", "6", "4">>, <<"p", "-", "7", "2">>, <<"p", "-", "8", "0">>,
     <<"p", "-", "9", "6">>, <<"p", "-", "f", "u", "l", "l">>, <<"p", "-", "1", "/", "2">>,
     <<"p", "-", "1", "/", "3">>, <<"p", "-", "2", "/", "3">>, <<"p", "-", "1", "/", "4">>,
     <<"p", "-", "2", "/", "4">>, <<"p", "-", "3", "/", "4">>, <<"p", "-", "1", "/", "5">>,
     <<"p", "-", "2", "/", "5">>, <<"p", "-", "3", "/", "5">>, <<"p", "-", "4", "/", "5">>,
     <<"p", "-", "1", "/", "6">>, <<"p", "-", "5", "/", "6">>, <<"p", "-", "1", "/", "1", "2">>,
     \* tree.rs:238
     <<"p", "x", "-", "0">>, <<"p", "x", "-", "1">>, <<"p", "x", "-", "2">>,
     <<"p", "x", "-", "3">>, <<"p", "x", "-", "4">>, <<"p", "x", "-", "5">>,
     <<"p", "x", "-", "6">>, <<"p", "x", "-", "8">>, <<"p", "x", "-", "1", "0">>,
     <<"p", "x", "-", "1", "2">>, <<"p", "x", "-", "1", "6">>, <<"p", "x", "-", "2", "0">>,
     <<"p", "x", "-", "2", "4">>, <<"p", "x", "-", "3", "2">>, <<"p", "x", "-", "4", "0">>,
     <<"p", "x", "-", "4", "8">>, <<"p", "x", "-", "5", "6">>, <<"p", "x", "-", "6", "4">>,
     <<"p", "x", "-", "7", "2">>, <<"p", "x", "-", "8", "0">>, <<"p", "x", "-", "9", "6">>,
     <<"p", "x", "-", "f", "u", "l", "l">>, <<"p", "x", "-", "1", "/", "2">>,
     <<"p", "x", "-", "1", "/", "3">>, <<"p", "x", "-", "2", "/", "3">>,
     <<"p", "x", "-", "1", "/", "4">>, <<"p", "x", "-", "2", "/", "4">>,
     <<"p", "x", "-", "3", "/", "4">>, <<"p", "x", "-", "1", "/", "5">>,
     <<"p", "x", "-", "2", "/", "5">>, <<"p", "x", "-", "3", "/", "5">>,
     <<"p", "x", "-", "4", "/", "5">>, <<"p", "x", "-", "1", "/", "6">>,
     <<"p", "x", "-", "5", "/", "6">>, <<"p", "x", "-", "1", "/", "1", "2">>,
     \* tree.rs:239
     <<"p", "y", "-", "0">>, <<"p", "y", "-", "1">>, <<"p", "y", "-", "2">>,
     <<"p", "y", "-", "3">>, <<"p", "y", "-", "4">>, <<"p", "y", "-", "5">>,
     <<"p", "y", "-", "6">>, <<"p", "y", "-", "8">>, <<"p", "y", "-", "1", "0">>,
     <<"p", "y", "-", "1", "2">>, <<"p", "y", "-", "1", "6">>, <<"p", "y", "-", "2", "0">>,
     <<"p", "y", "-", "2", "4">>, <<"p", "y", "-", "3", "2">>, <<"p", "y", "-", "4", "0">>,
     <<"p", "y", "-", "4", "8">>, <<"p", "y", "-", "5", "6">>, <<"p", "y", "-", "6", "4">>,
     <<"p", "y", "-", "7", "2">>, <<"p", "y", "-", "8", "0">>, <<"p", "y", "-", "9", "6">>,
     <<"p", "y", "-", "f", "u", "l", "l">>, <<"p", "y", "-", "1", "/", "2">>,
     <<"p", "y", "-", "1", "/", "3">>, <<"p", "y", "-", "2", "/", "3">>,
     <<"p", "y", "-", "1", "/", "4">>, <<"p", "y", "-", "2", "/", "4">>,
     <<"p", "y", "-", "3", "/", "4">>, <<"p", "y", "-", "1", "/", "5">>,
     <<"p", "y", "-", "2", "/", "5">>, <<"p", "y", "-", "3", "/", "5">>,
     <<"p", "y", "-", "4", "/", "5">>, <<"p", "y", "-", "1", "/", "6">>,
     <<"p", "y", "-", "5", "/", "6">>, <<"p", "y", "-", "1", "/", "1", "2">>,
     \* tree.rs:240
     <<"p", "t", "-", "0">>, <<"p", "t", "-", "1">>, <<"p", "t", "-", "2">>,
     <<"p", "t", "-", "3">>, <<"p", "t", "-", "4">>, <<"p", "t", "-", "5">>,
     <<"p", "t", "-", "6">>, <<"p", "t", "-", "8">>, <<"p", "t", "-", "1", "0">>,
     <<"p", "t", "-", "1", "2">>, <<"p", "t", "-", "1", "6">>, <<"p", "t", "-", "2", "0">>,
     <<"p", "t", "-", "2", "4">>, <<"p", "t", "-", "3", "2">>, <<"p", "t", "-", "4", "0">>,
     <<"p", "t", "-", "4", "8">>, <<"p", "t", "-", "5", "6">>, <<"p", "t", "-", "6", "4">>,
     <<"p", "t", "-", "7", "2">>, <<"p", "t", "-", "8", "0">>, <<"p", "t", "-", "9", "6">>,
     <<"p", "t", "-", "f", "u", "l", "l">>, <<"p", "t", "-", "1", "/", "2">>,
     <<"p", "t", "-", "1", "/", "3">>, <<"p", "t", "-", "2", "/", "3">>,
     <<"p", "t", "-", "1", "/", "4">>, <<"p", "t", "-", "2", "/", "4">>,
     <<"p", "t", "-", "3", "/", "4">>, <<"p", "t", "-", "1", "/", "5">>,
     <<"p", "t", "-", "2", "/", "5">>, <<"p", "t", "-", "3", "/", "5">>,
     <<"p", "t", "-", "4", "/", "5">>, <<"p", "t", "-", "1", "/", "6">>,
     <<"p", "t", "-", "5", "/", "6">>, <<"p", "t", "-", "1", "/", "1", "2">>,
     \* tree.rs:241
     <<"p", "r", "-", "0">>, <<"p", "r", "-", "1">>, <<"p", "r", "-", "2">>,
     <<"p", "r", "-", "3">>, <<"p", "r", "-", "4">>, <<"p", "r", "-", "5">>,
     <<"p", "r", "-", "6">>, <<"p", "r", "-", "8">>, <<"p", "r", "-", "1", "0">>,
     <<"p", "r", "-", "1", "2">>, <<"p", "r", "-", "1", "6">>, <<"p", "r", "-", "2", "0">>,
     <<"p", "r", "-", "2", "4">>, <<"p", "r", "-", "3", "2">>, <<"p", "r", "-", "4", "0">>,
     <<"p", "r", "-", "4", "8">>, <<"p", "r", "-", "5", "6">>, <<"p", "r", "-", "6", "4">>,
     <<"p", "r", "-", "7", "2">>, <<"p", "r", "-", "8", "0">>, <<"p", "r", "-", "9", "6">>,
     <<"p", "r", "-", "f", "u", "l", "l">>, <<"p", "r", "-", "1", "/", "2">>,
     <<"p", "r", "-", "1", "/", "3">>, <<"p", "r", "-", "2", "/", "3">>,
     <<"p", "r", "-", "1", "/", "4">>, <<"p", "r", "-", "2", "/", "4">>,
     <<"p", "r", "-", "3", "/", "4">>, <<"p", "r", "-", "1", "/", "5">>,
     <<"p", "r", "-", "2", "/", "5">>, <<"p", "r", "-", "3", "/", "5">>,
     <<"p", "r", "-", "4", "/", "5">>, <<"p", "r", "-", "1", "/", "6">>,
     <<"p", "r", "-", "5", "/", "6">>, <<"p", "r", "-", "1", "/", "1", "2">>,
     \* tree.rs:242
     <<"p", "b", "-", "0">>, <<"p", "b", "-", "1">>, <<"p", "b", "-", "2">>,
     <<"p", "b", "-", "3">>, <<"p", "b", "-", "4">>, <<"p", "b", "-", "5">>,
     <<"p", "b", "-", "6">>, <<"p", "b", "-", "8">>, <<"p", "b", "-", "1", "0">>,
     <<"p", "b", "-", "1", "2">>, <<"p", "b", "-", "1", "6">>, <<"p", "b", "-", "2", "0">>,
     <<"p", "b", "-", "2", "4">>, <<"p", "b", "-", "3", "2">>, <<"p", "b", "-", "4", "0">>,
     <<"p", "b", "-", "4", "8">>, <<"p", "b", "-", "5", "6">>, <<"p", "b", "-", "6", "4">>,
     <<"p", "b", "-", "7", "2">>, <<"p", "b", "-", "8", "0">>, <<"p", "b", "-", "9", "6">>,
     <<"p", "b", "-", "f", "u", "l", "l">>, <<"p", "b", "-", "1", "/", "2">>,
     <<"p", "b", "-", "1", "/", "3">>, <<"p", "b", "-", "2", "/", "3">>,
     <<"p", "b", "-", "1", "/", "4">>, <<"p", "b", "-", "2", "/", "4">>,
     <<"p", "b", "-", "3", "/", "4">>, <<"p", "b", "-", "1", "/", "5">>,
     <<"p", "b", "-", "2", "/", "5">>, <<"p", "b", "-", "3", "/", "5">>,
     <<"p", "b", "-", "4", "/", "5">>, <<"p", "b", "-", "1", "/", "6">>,
     <<"p", "b", "-", "5", "/", "6">>, <<"p", "b", "-", "1", "/", "1", "2">>,
     \* tree.rs:243
     <<"p", "l", "-", "0">>, <<"p", "l", "-", "1">>, <<"p", "l", "-", "2">>,
     <<"p", "l", "-", "3">>, <<"p", "l", "-", "4">>, <<"p", "l", "-", "5">>,
     <<"p", "l", "-", "6">>, <<"p", "l", "-", "8">>, <<"p", "l", "-", "1", "0">>,
     <<"p", "l", "-", "1", "2">>, <<"p", "l", "-", "1", "6">>, <<"p", "l", "-", "2", "0">>,
     <<"p", "l", "-", "2", "4">>, <<"p", "l", "-", "3", "2">>, <<"p", "l", "-", "4", "0">>,
     <<"p", "l", "-", "4", "8">>, <<"p", "l", "-", "5", "6">>, <<"p", "l", "-", "6", "4">>,
     <<"p", "l", "-", "7", "2">>, <<"p", "l", "-", "8", "0">>, <<"p", "l", "-", "9", "6">>,
     <<"p", "l", "-", "f", "u", "l", "l">>, <<"p", "l", "-", "1", "/", "2">>,
     <<"p", "l", "-", "1", "/", "3">>, <<"p", "l", "-", "2", "/", "3">>,
     <<"p", "l", "-", "1", "/", "4">>, <<"p", "l", "-", "2", "/", "4">>,
     <<"p", "l", "-", "3", "/", "4">>, <<"p", "l", "-", "1", "/", "5">>,
     <<"p", "l", "-", "2", "/", "5">>, <<"p", "l", "-", "3", "/", "5">>,
     <<"p", "l", "-", "4", "/", "5">>, <<"p", "l", "-", "1", "/", "6">>,
     <<"p", "l", "-", "5", "/", "6">>, <<"p", "l", "-", "1", "/", "1", "2">>,
     \* tree.rs:245
     <<"m", "-", "0">>, <<"m", "-", "1">>, <<"m", "-", "2">>, <<"m", "-", "3">>,
     <<"m", "-", "4">>, <<"m", "-", "5">>, <<"m", "-", "6">>, <<"m", "-", "8">>,
     <<"m", "-", "1", "0">>, <<"m", "-", "1", "2">>, <<"m", "-", "1", "6">>,
     <<"m", "-", "2", "0">>, <<"m", "-", "2", "4">>, <<"m", "-", "3", "2">>,
     <<"m", "-", "4", "0">>, <<"m", "-", "4", "8">>, <<"m", "-", "5", "6">>,
     <<"m", "-", "6", "4">>, <<"m", "-", "7", "2">>, <<"m", "-", "8", "0">>,
     <<"m", "-", "9", "6">>, <<"m", "-", "a", "u", "t", "o">>, <<"m", "-", "f", "u", "l", "l">>,
     <<"m", "-", "1", "/", "2">>, <<"m", "-", "1", "/", "3">>, <<"m", "-", "2", "/", "3">>,
     <<"m", "-", "1", "/", "4">>, <<"m", "-", "2", "/", "4">>, <<"m", "-", "3", "/", "4">>,
     <<"m", "-", "1", "/", "5">>, <<"m", "-", "2", "/", "5">>, <<"m", "-", "3", "/", "5">>,
     <<"m", "-", "4", "/", "5">>, <<"m", "-", "1", "/", "6">>, <<"m", "-", "5", "/", "6">>,
     <<"m", "-", "1", "/", "1", "2">>,
     \* tree.rs:246
     <<"m", "x", "-", "0">>, <<"m", "x", "-", "1">>, <<"m", "x", "-", "2">>,
     <<"m", "x", "-", "3">>, <<"m", "x", "-", "4">>, <<"m", "x", "-", "5">>,
     <<"m", "x", "-", "6">>, <<"m", "x", "-", "8">>, <<"m", "x", "-", "1", "0">>,
     <<"m", "x", "-", "1", "2">>, <<"m", "x", "-", "1", "6">>, <<"m", "x", "-", "2", "0">>,
     <<"m", "x", "-", "2", "4">>, <<"m", "x", "-", "3", "2">>, <<"m", "x", "-", "4", "0">>,
     <<"m", "x", "-", "4", "8">>, <<"m", "x", "-", "5", "6">>, <<"m", "x", "-", "6", "4">>,
     <<"m", "x", "-", "7", "2">>, <<"m", "x", "-", "8", "0">>, <<"m", "x", "-", "9", "6">>,
     <<"m", "x", "-", "a", "u", "t", "o">>, <<"m", "x", "-", "f", "u", "l", "l">>,
     <<"m", "x", "-", "1", "/", "2">>, <<"m", "x", "-", "1", "/", "3">>,
     <<"m", "x", "-", "2", "/", "3">>, <<"m", "x", "-", "1", "/", "4">>,
     <<"m", "x", "-", "2", "/", "4">>, <<"m", "x", "-", "3", "/", "4">>,
     <<"m", "x", "-", "1", "/", "5">>, <<"m", "x", "-", "2", "/", "5">>,
     <<"m", "x", "-", "3", "/", "5">>, <<"m", "x", "-", "4", "/", "5">>,
     <<"m", "x", "-", "1", "/", "6">>, <<"m", "x", "-", "5", "/", "6">>,
     <<"m", "x", "-", "1", "/", "1", "2">>,
     \* tree.rs:247
     <<"m", "y", "-", "0">>, <<"m", "y", "-", "1">>, <<"m", "y", "-", "2">>,
     <<"m", "y", "-", "3">>, <<"m", "y", "-", "4">>, <<"m", "y", "-", "5">>,
     <<"m", "y", "-", "6">>, <<"m", "y", "-", "8">>, <<"m", "y", "-", "1", "0">>,
     <<"m", "y", "-", "1", "2">>, <<"m", "y", "-", "1", "6">>, <<"m", "y", "-", "2", "0">>,
     <<"m", "y", "-", "2", "4">>, <<"m", "y", "-", "3", "2">>, <<"m", "y", "-", "4", "0">>,
     <<"m", "y", "-", "4", "8">>, <<"m", "y", "-", "5", "6">>, <<"m", "y", "-", "6", "4">>,
     <<"m", "y", "-", "7", "2">>, <<"m", "y", "-", "8", "0">>, <<"m", "y", "-", "9", "6">>,
     <<"m", "y", "-", "a", "u", "t", "o">>, <<"m", "y", "-", "f", "u", "l", "l">>,
     <<"m", "y", "-", "1", "/", "2">>, <<"m", "y", "-", "1", "/", "3">>,
     <<"m", "y", "-", "2", "/", "3">>, <<"m", "y", "-", "1", "/", "4">>,
     <<"m", "y", "-", "2", "/", "4">>, <<"m", "y", "-", "3", "/", "4">>,
     <<"m", "y", "-", "1", "/", "5">>, <<"m", "y", "-", "2", "/", "5">>,
     <<"m", "y", "-", "3", "/", "5">>, <<"m", "y", "-", "4", "/", "5">>,
     <<"m", "y", "-", "1", "/", "6">>, <<"m", "y", "-", "5", "/", "6">>,
     <<"m", "y", "-", "1", "/", "1", "2">>,
     \* tree.rs:248
     <<"m", "t", "-", "0">>, <<"m", "t", "-", "1">>, <<"m", "t", "-", "2">>,
     <<"m", "t", "-", "3">>, <<"m", "t", "-", "4">>, <<"m", "t", "-", "5">>,
     <<"m", "t", "-", "6">>, <<"m", "t", "-", "8">>, <<"m", "t", "-", "1", "0">>,
     <<"m", "t", "-", "1", "2">>, <<"m", "t", "-", "1", "6">>, <<"m", "t", "-", "2", "0">>,
     <<"m", "t", "-", "2", "4">>, <<"m", "t", "-", "3", "2">>, <<"m", "t", "-", "4", "0">>,
     <<"m", "t", "-", "4", "8">>, <<"m", "t", "-", "5", "6">>, <<"m", "t", "-", "6", "4">>,
     <<"m", "t", "-", "7", "2">>, <<"m", "t", "-", "8", "0">>, <<"m", "t", "-", "9", "6">>,
     <<"m", "t", "-", "a", "u", "t", "o">>, <<"m", "t", "-", "f", "u", "l", "l">>,
     <<"m", "t", "-", "1", "/", "2">>, <<"m", "t", "-", "1", "/", "3">>,
     <<"m", "t", "-", "2", "/", "3">>, <<"m", "t", "-", "1", "/", "4">>,
     <<"m", "t", "-", "2", "/", "4">>, <<"m", "t", "-", "3", "/", "4">>,
     <<"m", "t", "-", "1", "/", "5">>, <<"m", "t", "-", "2", "/", "5">>,
     <<"m", "t", "-", "3", "/", "5">>, <<"m", "t", "-", "4", "/", "5">>,
     <<"m", "t", "-", "1", "/", "6">>, <<"m", "t", "-", "5", "/", "6">>,
     <<"m", "t", "-", "1", "/", "1", "2">>,
     \* tree.rs:249
     <<"m", "r", "-", "0">>, <<"m", "r", "-", "1">>, <<"m", "r", "-", "2">>,
     <<"m", "r", "-", "3">>, <<"m", "r", "-", "4">>, <<"m", "r", "-", "5">>,
     <<"m", "r", "-", "6">>, <<"m", "r", "-", "8">>, <<"m", "r", "-", "1", "0">>,
     <<"m", "r", "-", "1", "2">>, <<"m", "r", "-", "1", "6">>, <<"m", "r", "-", "2", "0">>,
     <<"m", "r", "-", "2", "4">>, <<"m", "r", "-", "3", "2">>, <<"m", "r", "-", "4", "0">>,
     <<"m", "r", "-", "4", "8">>, <<"m", "r", "-", "5", "6">>, <<"m", "r", "-", "6", "4">>,
     <<"m", "r", "-", "7", "2">>, <<"m", "r", "-", "8", "0">>, <<"m", "r", "-", "9", "6">>,
     <<"m", "r", "-", "a", "u", "t", "o">>, <<"m", "r", "-", "f", "u", "l", "l">>,
     <<"m", "r", "-", "1", "/", "2">>, <<"m", "r", "-", "1", "/", "3">>,
     <<"m", "r", "-", "2", "/", "3">>, <<"m", "r", "-", "1", "/", "4">>,
     <<"m", "r", "-", "2", "/", "4">>, <<"m", "r", "-", "3", "/", "4">>,
     <<"m", "r", "-", "1", "/", "5">>, <<"m", "r", "-", "2", "/", "5">>,
     <<"m", "r", "-", "3", "/", "5">>, <<"m", "r", "-", "4", "/", "5">>,
     <<"m", "r", "-", "1", "/", "6">>, <<"m", "r", "-", "5", "/", "6">>,
     <<"m", "r", "-", "1", "/", "1", "2">>,
     \* tree.rs:250
     <<"m", "b", "-", "0">>, <<"m", "b", "-", "1">>, <<"m", "b", "-", "2">>,
     <<"m", "b", "-", "3">>, <<"m", "b", "-", "4">>, <<"m", "b", "-", "5">>,
     <<"m", "b", "-", "6">>, <<"m", "b", "-", "8">>, <<"m", "b", "-", "1", "0">>,
     <<"m", "b", "-", "1", "2">>, <<"m", "b", "-", "1", "6">>, <<"m", "b", "-", "2", "0">>,
     <<"m", "b", "-", "2", "4">>, <<"m", "b", "-", "3", "2">>, <<"m", "b", "-", "4", "0">>,
     <<"m", "b", "-", "4", "8">>, <<"m", "b", "-", "5", "6">>, <<"m", "b", "-", "6", "4">>,
     <<"m", "b", "-", "7", "2">>, <<"m", "b", "-", "8", "0">>, <<"m", "b", "-", "9", "6">>,
     <<"m", "b", "-", "a", "u", "t", "o">>, <<"m", "b", "-", "f", "u", "l", "l">>,
     <<"m", "b", "-", "1", "/", "2">>, <<"m", "b", "-", "1", "/", "3">>,
     <<"m", "b", "-", "2", "/", "3">>, <<"m", "b", "-", "1", "/", "4">>,
     <<"m", "b", "-", "2", "/", "4">>, <<"m", "b", "-", "3", "/", "4">>,
     <<"m", "b", "-", "1", "/", "5">>, <<"m", "b", "-", "2", "/", "5">>,
     <<"m", "b", "-", "3", "/", "5">>, <<"m", "b", "-", "4", "/", "5">>,
     <<"m", "b", "-", "1", "/", "6">>, <<"m", "b", "-", "5", "/", "6">>,
     <<"m", "b", "-", "1", "/", "1", "2">>,
     \* tree.rs:251
     <<"m", "l", "-", "0">>, <<"m", "l", "-", "1">>, <<"m", "l", "-", "2">>,
     <<"m", "l", "-", "3">>, <<"m", "l", "-", "4">>, <<"m", "l", "-", "5">>,
     <<"m", "l", "-", "6">>, <<"m", "l", "-", "8">>, <<"m", "l", "-", "1", "0">>,
     <<"m", "l", "-", "1", "2">>, <<"m", "l", "-", "1", "6">>, <<"m", "l", "-", "2", "0">>,
     <<"m", "l", "-", "2", "4">>, <<"m", "l", "-", "3", "2">>, <<"m", "l", "-", "4", "0">>,
     <<"m", "l", "-", "4", "8">>, <<"m", "l", "-", "5", "6">>, <<"m", "l", "-", "6", "4">>,
     <<"m", "l", "-", "7", "2">>, <<"m", "l", "-", "8", "0">>, <<"m", "l", "-", "9", "6">>,
     <<"m", "l", "-", "a", "u", "t", "o">>, <<"m", "l", "-", "f", "u", "l", "l">>,
     <<"m", "l", "-", "1", "/", "2">>, <<"m", "l", "-", "1", "/", "3">>,
     <<"m", "l", "-", "2", "/", "3">>, <<"m", "l", "-", "1", "/", "4">>,
     <<"m", "l", "-", "2", "/", "4">>, <<"m", "l", "-", "3", "/", "4">>,
     <<"m", "l", "-", "1", "/", "5">>, <<"m", "l", "-", "2", "/", "5">>,
     <<"m", "l", "-", "3", "/", "5">>, <<"m", "l", "-", "4", "/", "5">>,
     <<"m", "l", "-", "1", "/", "6">>, <<"m", "l", "-", "5", "/", "6">>,
     <<"m", "l", "-", "1", "/", "1", "2">>,
     \* tree.rs:253
     <<"b", "o", "r", "d", "e", "r">>, <<"b", "o", "r", "d", "e", "r", "-", "0">>,
     <<"b", "o", "r", "d", "e", "r", "-", "1">>, <<"b", "o", "r", "d", "e", "r", "-", "2">>,
     <<"b", "o", "r", "d", "e", "r", "-", "3">>, <<"b", "o", "r", "d", "e", "r", "-", "4">>,
     <<"b", "o", "r", "d", "e", "r", "-", "5">>, <<"b", "o", "r", "d", "e", "r", "-", "6">>,
     <<"b", "o", "r", "d", "e", "r", "-", "8">>,
     <<"b", "o", "r", "d", "e", "r", "-", "1", "0">>,
     <<"b", "o", "r", "d", "e", "r", "-", "1", "2">>,
     <<"b", "o", "r", "d", "e", "r", "-", "1", "6">>,
     <<"b", "o", "r", "d", "e", "r", "-", "2", "0">>,
     <<"b", "o", "r", "d", "e", "r", "-", "2", "4">>,
     <<"b", "o", "r", "d", "e", "r", "-", "3", "2">>,
     \* tree.rs:255
     <<"b", "o", "r", "d", "e", "r", "-", "t">>,
     <<"b", "o", "r", "d", "e", "r", "-", "t", "-", "0">>,
     <<"b", "o", "r", "d", "e", "r", "-", "t", "-", "1">>,
     <<"b", "o", "r", "d", "e", "r", "-", "t", "-", "2">>,
     <<"b", "o", "r", "d", "e", "r", "-", "t", "-", "3">>,
     <<"b", "o", "r", "d", "e", "r", "-", "t", "-", "4">>,
     <<"b", "o", "r", "d", "e", "r", "-", "t", "-", "5">>,
     <<"b", "o", "r", "d", "e", "r", "-", "t", "-", "6">>,
     <<"b", "o", "r", "d", "e", "r", "-", "t", "-", "8">>,
     <<"b", "o", "r", "d", "e", "r", "-", "t", "-", "1", "0">>,
     <<"b", "o", "r", "d", "e", "r", "-", "t", "-", "1", "2">>,
     <<"b", "o", "r", "d", "e", "r", "-", "t", "-", "1", "6">>,
     <<"b", "o", "r", "d", "e", "r", "-", "t", "-", "2", "0">>,
     <<"b", "o", "r", "d", "e", "r", "-", "t", "-", "2", "4">>,
     <<"b", "o", "r", "d", "e", "r", "-", "t", "-", "3", "2">>,
     \* tree.rs:256
     <<"b", "o", "r", "d", "e", "r", "-", "r">>,
     <<"b", "o", "r", "d", "e", "r", "-", "r", "-", "0">>,
     <<"b", "o", "r", "d", "e", "r", "-", "r", "-", "1">>,
     <<"b", "o", "r", "d", "e", "r", "-", "r", "-", "2">>,
     <<"b", "o", "r", "d", "e", "r", "-", "r", "-", "3">>,
     <<"b", "o", "r", "d", "e", "r", "-", "r", "-", "4">>,
     <<"b", "o", "r", "d", "e", "r", "-", "r", "-", "5">>,
     <<"b", "o", "r", "d", "e", "r", "-", "r", "-", "6">>,
     <<"b", "o", "r", "d", "e", "r", "-", "r", "-", "8">>,
     <<"b", "o", "r", "d", "e", "r", "-", "r", "-", "1", "0">>,
     <<"b", "o", "r", "d", "e", "r", "-", "r", "-", "1", "2">>,
     <<"b", "o", "r", "d", "e", "r", "-", "r", "-", "1", "6">>,
     <<"b", "o", "r", "d", "e", "r", "-", "r", "-", "2", "0">>,
     <<"b", "o", "r", "d", "e", "r", "-", "r", "-", "2", "4">>,
     <<"b", "o", "r", "d", "e", "r", "-", "r", "-", "3", "2">>,
     \* tree.rs:257
     <<"b", "o", "r", "d", "e", "r", "-", "b">>,
     <<"b", "o", "r", "d", "e", "r", "-", "b", "-", "0">>,
     <<"b", "o", "r", "d", "e", "r", "-", "b", "-", "1">>,
     <<"b", "o", "r", "d", "e", "r", "-", "b", "-", "2">>,
     <<"b", "o", "r", "d", "e", "r", "-", "b", "-", "3">>,
     <<"b", "o", "r", "d", "e", "r", "-", "b", "-", "4">>,
     <<"b", "o", "r", "d", "e", "r", "-", "b", "-", "5">>,
     <<"b", "o", "r", "d", "e", "r", "-", "b", "-", "6">>,
     <<"b", "o", "r", "d", "e", "r", "-", "b", "-", "8">>,
     <<"b", "o", "r", "d", "e", "r", "-", "b", "-", "1", "0">>,
     <<"b", "o", "r", "d", "e", "r", "-", "b", "-", "1", "2">>,
     <<"b", "o", "r", "d", "e", "r", "-", "b", "-", "1", "6">>,
     <<"b", "o", "r", "d", "e", "r", "-", "b", "-", "2", "0">>,
     <<"b", "o", "r", "d", "e", "r", "-", "b", "-", "2", "4">>,
     <<"b", "o", "r", "d", "e", "r", "-", "b", "-", "3", "2">>,
     \* tree.rs:258
     <<"b", "o", "r", "d", "e", "r", "-", "l">>,
     <<"b", "o", "r", "d", "e", "r", "-", "l", "-", "0">>,
     <<"b", "o", "r", "d", "e", "r", "-", "l", "-", "1">>,
     <<"b", "o", "r", "d", "e", "r", "-", "l", "-", "2">>,
     <<"b", "o", "r", "d", "e", "r", "-", "l", "-", "3">>,
     <<"b", "o", "r", "d", "e", "r", "-", "l", "-", "4">>,
     <<"b", "o", "r", "d", "e", "r", "-", "l", "-", "5">>,
     <<"b", "o", "r", "d", "e", "r", "-", "l", "-", "6">>,
     <<"b", "o", "r", "d", "e", "r", "-", "l", "-", "8">>,
     <<"b", "o", "r", "d", "e", "r", "-", "l", "-", "1", "0">>,
     <<"b", "o", "r", "d", "e", "r", "-", "l", "-", "1", "2">>,
     <<"b", "o", "r", "d", "e", "r", "-", "l", "-", "1", "6">>,
     <<"b", "o", "r", "d", "e", "r", "-", "l", "-", "2", "0">>,
     <<"b", "o", "r", "d", "e", "r", "-", "l", "-", "2", "4">>,
     <<"b", "o", "r", "d", "e", "r", "-", "l", "-", "3", "2">>,
     \* tree.rs:260
     <<"r", "o", "u", "n", "d", "e", "d", "-", "n", "o", "n", "e">>,
     <<"r", "o", "u", "n", "d", "e", "d", "-", "s", "m">>,
     <<"r", "o", "u", "n", "d", "e", "d", "-", "m", "d">>,
     <<"r", "o", "u", "n", "d", "e", "d", "-", "l", "g">>,
     <<"r", "o", "u", "n", "d", "e", "d", "-", "x", "l">>,
     <<"r", "o", "u", "n", "d", "e", "d", "-", "2", "x", "l">>,
     <<"r", "o", "u", "n", "d", "e", "d", "-", "3", "x", "l">>,
     <<"r", "o", "u", "n", "d", "e", "d", "-", "f", "u", "l", "l">>,
     \* tree.rs:261
     <<"r", "o", "u", "n", "d", "e", "d", "-", "t", "-", "n", "o", "n", "e">>,
     <<"r", "o", "u", "n", "d", "e", "d", "-", "t", "-", "s", "m">>,
     <<"r", "o", "u", "n", "d", "e", "d", "-", "t", "-", "m", "d">>,
     <<"r", "o", "u", "n", "d", "e", "d", "-", "t", "-", "l", "g">>,
     <<"r", "o", "u", "n", "d", "e", "d", "-", "t", "-", "x", "l">>,
     <<"r", "o", "u", "n", "d", "e", "d", "-", "t", "-", "2", "x", "l">>,
     <<"r", "o", "u", "n", "d", "e", "d", "-", "t", "-", "3", "x", "l">>,
     <<"r", "o", "u", "n", "d", "e", "d", "-", "t", "-", "f", "u", "l", "l">>,
     \* tree.rs:262
     <<"r", "o", "u", "n", "d", "e", "d", "-", "r", "-", "n", "o", "n", "e">>,
     <<"r", "o", "u", "n", "d", "e", "d", "-", "r", "-", "s", "m">>,
     <<"r", "o", "u", "n", "d", "e", "d", "-", "r", "-", "m", "d">>,
     <<"r", "o", "u", "n", "d", "e", "d", "-", "r", "-", "l", "g">>,
     <<"r", "o", "u", "n", "d", "e", "d", "-", "r", "-", "x", "l">>,
     <<"r", "o", "u", "n", "d", "e", "d", "-", "r", "-", "2", "x", "l">>,
     <<"r", "o", "u", "n", "d", "e", "d", "-", "r", "-", "3", "x", "l">>,
     <<"r", "o", "u", "n", "d", "e", "d", "-", "r", "-", "f", "u", "l", "l">>,
     \* tree.rs:263
     <<"r", "o", "u", "n", "d", "e", "d", "-", "b", "-", "n", "o", "n", "e">>,
     <<"r", "o", "u", "n", "d", "e", "d", "-", "b", "-", "s", "m">>,
     <<"r", "o", "u", "n", "d", "e", "d", "-", "b", "-", "m", "d">>,
     <<"r", "o", "u", "n", "d", "e", "d", "-", "b", "-", "l", "g">>,
     <<"r", "o", "u", "n", "d", "e", "d", "-", "b", "-", "x", "l">>,
     <<"r", "o", "u", "n", "d", "e", "d", "-", "b", "-", "2", "x", "l">>,
     <<"r", "o", "u", "n", "d", "e", "d", "-", "b", "-", "3", "x", "l">>,
     <<"r", "o", "u", "n", "d", "e", "d", "-", "b", "-", "f", "u", "l", "l">>,
     \* tree.rs:264
     <<"r", "o", "u", "n", "d", "e", "d", "-", "l", "-", "n", "o", "n", "e">>,
     <<"r", "o", "u", "n", "d", "e", "d", "-", "l", "-", "s", "m">>,
     <<"r", "o", "u", "n", "d", "e", "d", "-", "l", "-", "m", "d">>,
     <<"r", "o", "u", "n", "d", "e", "d", "-", "l", "-", "l", "g">>,
     <<"r", "o", "u", "n", "d", "e", "d", "-", "l", "-", "x", "l">>,
     <<"r", "o", "u", "n", "d", "e", "d", "-", "l", "-", "2", "x", "l">>,
     <<"r", "o", "u", "n", "d", "e", "d", "-", "l", "-", "3", "x", "l">>,
     <<"r", "o", "u", "n", "d", "e", "d", "-", "l", "-", "f", "u", "l", "l">>,
     \* tree.rs:265
     <<"r", "o", "u", "n", "d", "e", "d", "-", "t", "l", "-", "n", "o", "n", "e">>,
     <<"r", "o", "u", "n", "d", "e", "d", "-", "t", "l", "-", "s", "m">>,
     <<"r", "o", "u", "n", "d", "e", "d", "-", "t", "l", "-", "m", "d">>,
     <<"r", "o", "u", "n", "d", "e", "d", "-", "t", "l", "-", "l", "g">>,
     <<"r", "o", "u", "n", "d", "e", "d", "-", "t", "l", "-", "x", "l">>,
     <<"r", "o", "u", "n", "d", "e", "d", "-", "t", "l", "-", "2", "x", "l">>,
     <<"r", "o", "u", "n", "d", "e", "d", "-", "t", "l", "-", "3", "x", "l">>,
     <<"r", "o", "u", "n", "d", "e", "d", "-", "t", "l", "-", "f", "u", "l", "l">>,
     \* tree.rs:266
     <<"r", "o", "u", "n", "d", "e", "d", "-", "t", "r", "-", "n", "o", "n", "e">>,
     <<"r", "o", "u", "n", "d", "e", "d", "-", "t", "r", "-", "s", "m">>,
     <<"r", "o", "u", "n", "d", "e", "d", "-", "t", "r", "-", "m", "d">>,
     <<"r", "o", "u", "n", "d", "e", "d", "-", "t", "r", "-", "l", "g">>,
     <<"r", "o", "u", "n", "d", "e", "d", "-", "t", "r", "-", "x", "l">>,
     <<"r", "o", "u", "n", "d", "e", "d", "-", "t", "r", "-", "2", "x", "l">>,
     <<"r", "o", "u", "n", "d", "e", "d", "-", "t", "r", "-", "3", "x", "l">>,
     <<"r", "o", "u", "n", "d", "e", "d", "-", "t", "r", "-", "f", "u", "l", "l">>,
     \* tree.rs:267
     <<"r", "o", "u", "n", "d", "e", "d", "-", "b", "r", "-", "n", "o", "n", "e">>,
     <<"r", "o", "u", "n", "d", "e", "d", "-", "b", "r", "-", "s", "m">>,
     <<"r", "o", "u", "n", "d", "e", "d", "-", "b", "r", "-", "m", "d">>,
     <<"r", "o", "u", "n", "d", "e", "d", "-", "b", "r", "-", "l", "g">>,
     <<"r", "o", "u", "n", "d", "e", "d", "-", "b", "r", "-", "x", "l">>,
     <<"r", "o", "u", "n", "d", "e", "d", "-", "b", "r", "-", "2", "x", "l">>,
     <<"r", "o", "u", "n", "d", "e", "d", "-", "b", "r", "-", "3", "x", "l">>,
     <<"r", "o", "u", "n", "d", "e", "d", "-", "b", "r", "-", "f", "u", "l", "l">>,
     \* tree.rs:268
     <<"r", "o", "u", "n", "d", "e", "d", "-", "b", "l", "-", "n", "o", "n", "e">>,
     <<"r", "o", "u", "n", "d", "e", "d", "-", "b", "l", "-", "s", "m">>,
     <<"r", "o", "u", "n", "d", "e", "d", "-", "b", "l", "-", "m", "d">>,
     <<"r", "o", "u", "n", "d", "e", "d", "-", "b", "l", "-", "l", "g">>,
     <<"r", "o", "u", "n", "d", "e", "d", "-", "b", "l", "-", "x", "l">>,
     <<"r", "o", "u", "n", "d", "e", "d", "-", "b", "l", "-", "2", "x", "l">>,
     <<"r", "o", "u", "n", "d", "e", "d", "-", "b", "l", "-", "3", "x", "l">>,
     <<"r", "o", "u", "n", "d", "e", "d", "-", "b", "l", "-", "f", "u", "l", "l">>,
     \* tree.rs:270
     <<"f", "o", "n", "t", "-", "t", "h", "i", "n">>,
     <<"f", "o", "n", "t", "-", "e", "x", "t", "r", "a", "l", "i", "g", "h", "t">>,
     <<"f", "o", "n", "t", "-", "l", "i", "g", "h", "t">>,
     <<"f", "o", "n", "t", "-", "n", "o", "r", "m", "a", "l">>,
     <<"f", "o", "n", "t", "-", "m", "e", "d", "i", "u", "m">>,
     <<"f", "o", "n", "t", "-", "s", "e", "m", "i", "b", "o", "l", "d">>,
     <<"f", "o", "n", "t", "-", "b", "o", "l", "d">>,
     <<"f", "o", "n", "t", "-", "e", "x", "t", "r", "a", "b", "o", "l", "d">>,
     <<"f", "o", "n", "t", "-", "b", "l", "a", "c", "k">>,
     \* tree.rs:272
     <<"t", "e", "x", "t", "-", "x", "s">>, <<"t", "e", "x", "t", "-", "s", "m">>,
     <<"t", "e", "x", "t", "-", "b", "a", "s", "e">>, <<"t", "e", "x", "t", "-", "l", "g">>,
     <<"t", "e", "x", "t", "-", "x", "l">>, <<"t", "e", "x", "t", "-", "2", "x", "l">>,
     <<"t", "e", "x", "t", "-", "3", "x", "l">>,
     \* tree.rs:274
     <<"s", "i", "z", "e", "-", "0">>, <<"s", "i", "z", "e", "-", "0", ".", "5">>,
     <<"s", "i", "z", "e", "-", "1">>, <<"s", "i", "z", "e", "-", "1", ".", "5">>,
     <<"s", "i", "z", "e", "-", "2">>, <<"s", "i", "z", "e", "-", "2", ".", "5">>,
     <<"s", "i", "z", "e", "-", "3">>, <<"s", "i", "z", "e", "-", "3", ".", "5">>,
     <<"s", "i", "z", "e", "-", "4">>, <<"s", "i", "z", "e", "-", "5">>,
     <<"s", "i", "z", "e", "-", "6">>, <<"s", "i", "z", "e", "-", "8">>,
     <<"s", "i", "z", "e", "-", "1", "0">>, <<"s", "i", "z", "e", "-", "1", "2">>,
     <<"s", "i", "z", "e", "-", "1", "6">>, <<"s", "i", "z", "e", "-", "2", "0">>,
     <<"s", "i", "z", "e", "-", "2", "4">>, <<"s", "i", "z", "e", "-", "3", "2">>,
     <<"s", "i", "z", "e", "-", "4", "0">>, <<"s", "i", "z", "e", "-", "4", "8">>,
     <<"s", "i", "z", "e", "-", "5", "6">>, <<"s", "i", "z", "e", "-", "6", "4">>,
     <<"s", "i", "z", "e", "-", "7", "2">>, <<"s", "i", "z", "e", "-", "8", "0">>,
     <<"s", "i", "z", "e", "-", "9", "6">>, <<"s", "i", "z", "e", "-", "1", "/", "2">>,
     <<"s", "i", "z", "e", "-", "1", "/", "3">>, <<"s", "i", "z", "e", "-", "2", "/", "3">>,
     <<"s", "i", "z", "e", "-", "1", "/", "4">>, <<"s", "i", "z", "e", "-", "2", "/", "4">>,
     <<"s", "i", "z", "e", "-", "3", "/", "4">>, <<"s", "i", "z", "e", "-", "1", "/", "5">>,
     <<"s", "i", "z", "e", "-", "2", "/", "5">>, <<"s", "i", "z", "e", "-", "3", "/", "5">>,
     <<"s", "i", "z", "e", "-", "4", "/", "5">>, <<"s", "i", "z", "e", "-", "1", "/", "6">>,
     <<"s", "i", "z", "e", "-", "5", "/", "6">>,
     <<"s", "i", "z", "e", "-", "1", "/", "1", "2">>,
     <<"s", "i", "z", "e", "-", "f", "u", "l", "l">>,
     <<"s", "i", "z", "e", "-", "a", "u", "t", "o">>
    }

\* lib.rs:68-76: the method a static class calls
MethodName(class) ==
    [i \in 1..Len(class) |->
        CASE class[i] = "-" -> "_"
          [] class[i] = "/" -> "_"
          [] class[i] = "." -> "p"
          [] OTHER -> class[i]]

\* lib.rs:80-91: the FontWeight constant of a font-<weight> class
FontWeightName(suffix) ==
    CASE suffix = <<"t", "h", "i", "n">> -> <<"T", "H", "I", "N">>
      [] suffix = <<"e", "x", "t", "r", "a", "l", "i", "g", "h", "t">> -> <<"E", "X", "T", "R", "A", "_", "L", "I", "G", "H", "T">>
      [] suffix = <<"l", "i", "g", "h", "t">> -> <<"L", "I", "G", "H", "T">>
      [] suffix = <<"n", "o", "r", "m", "a", "l">> -> <<"N", "O", "R", "M", "A", "L">>
      [] suffix = <<"m", "e", "d", "i", "u", "m">> -> <<"M", "E", "D", "I", "U", "M">>
      [] suffix = <<"s", "e", "m", "i", "b", "o", "l", "d">> -> <<"S", "E", "M", "I", "B", "O", "L", "D">>
      [] suffix = <<"b", "o", "l", "d">> -> <<"B", "O", "L", "D">>
      [] suffix = <<"e", "x", "t", "r", "a", "b", "o", "l", "d">> -> <<"E", "X", "T", "R", "A", "_", "B", "O", "L", "D">>
      [] suffix = <<"b", "l", "a", "c", "k">> -> <<"B", "L", "A", "C", "K">>
      [] OTHER -> <<"N", "O", "R", "M", "A", "L">>

\* class.value().replace("font-", "")
RECURSIVE RemoveFontDash(_)
RemoveFontDash(s) ==
    IF s = <<>> THEN <<>>
    ELSE IF StartsWith(s, s_font_dash) THEN RemoveFontDash(From(s, Len(s_font_dash) + 1))
    ELSE <<s[1]>> \o RemoveFontDash(Tail(s))

\* one call on the Styled element
Mutation(op, name, length, color) ==
    [op |-> op, name |-> name, length |-> length, color |-> color]

\* lib.rs:78-99: the arm the macro generates for a static class
StaticMutation(class) ==
    IF StartsWith(class, s_font_dash)
    THEN Mutation("font_weight", FontWeightName(RemoveFontDash(class)), NoLength, NoColor)
    ELSE Mutation("method", MethodName(class), NoLength, NoColor)

\* suffix.split('-').next()
SideCode(suffix) ==
    IF IndexOf(suffix, "-") = 0 THEN suffix
    ELSE SubSeq(suffix, 1, IndexOf(suffix, "-") - 1)

\* tree.rs:280-282, 286-288, 292-294: &class_name[prefix.len()..len - 1]
\* handed to hex_to_rgba: [ok, value, color]
DynamicColor(class_name, prefix) ==
    LET hex == Slice(class_name, Len(prefix), Len(class_name) - 1)
    IN  IF hex.ok THEN hex_to_rgba(hex.value)
        ELSE [ok |-> FALSE, value |-> U32(0), color |-> NoColor]

\* tree.rs:300-310
RoundedOp(side) ==
    CASE side = <<"t">> -> "rounded_t"
      [] side = <<"r">> -> "rounded_r"
      [] side = <<"b">> -> "rounded_b"
      [] side = <<"l">> -> "rounded_l"
      [] side = <<"t", "l">> -> "rounded_tl"
      [] side = <<"t", "r">> -> "rounded_tr"
      [] side = <<"b", "r">> -> "rounded_br"
      [] side = <<"b", "l">> -> "rounded_bl"
      [] OTHER -> "rounded"

\* tree.rs:315-321
BorderOp(side) ==
    CASE side = <<"t">> -> "border_t_width"
      [] side = <<"r">> -> "border_r_width"
      [] side = <<"b">> -> "border_b_width"
      [] side = <<"l">> -> "border_l_width"
      [] OTHER -> "rounded"

\* variant of Rule: the border width rule is tried before the border colour
\* rule
RuleWidthBeforeColour(class_name) ==
    IF class_name \in StaticClasses THEN "static"
    ELSE IF StartsWith(class_name, s_bg_prefix) THEN "bg"
    ELSE IF StartsWith(class_name, s_text_color_prefix) THEN "text_color"
    ELSE IF StartsWith(class_name, s_rounded_prefix) THEN "rounded"
    ELSE IF StartsWith(class_name, s_border_prefix) THEN "border"
    ELSE IF StartsWith(class_name, s_border_color_prefix) THEN "border_color"
    ELSE "unrecognized"

\* which arm of the generated match handles a class: the literal arms first
\* (lib.rs:103-108), then the if / else if chain of the catch-all arm
\* (tree.rs:277-327)
Rule(class_name) ==
    IF class_name \in StaticClasses THEN "static"
    ELSE IF StartsWith(class_name, s_bg_prefix) THEN "bg"
    ELSE IF StartsWith(class_name, s_text_color_prefix) THEN "text_color"
    ELSE IF StartsWith(class_name, s_border_color_prefix) THEN "border_color"
    ELSE IF StartsWith(class_name, s_rounded_prefix) THEN "rounded"
    ELSE IF StartsWith(class_name, s_border_prefix) THEN "border"
    ELSE "unrecognized"

\* variant of Unrecognized: a class no rule handles aborts
UnrecognizedAborts(style, class_name) == [ok |-> FALSE, style |-> style]

\* tree.rs:323-326: println!("Unrecognized class: {}", class_name); element
Unrecognized(style, class_name) == [ok |-> TRUE, style |-> style]

\* the element after mutation m
Applied(style, m) == [ok |-> TRUE, style |-> Append(style, m)]

\* tree.rs:279-295: element.bg(..), .text_color(..), .border_color(..) with
\* the colour c that hex_to_rgba returned, if it returned
ApplyColor(style, op, c) ==
    IF c.ok THEN Applied(style, Mutation(op, <<>>, NoLength, c.color))
    ELSE [ok |-> FALSE, style |-> style]

\* tree.rs:297-322: the side's mutation op with the length of the suffix
ApplySized(style, op, suffix) ==
    Applied(style, Mutation(op, <<>>, extract_length_from_class_name(suffix), NoColor))

\* lib.rs:103-108, tree.rs:277-327: the arm of rule
ApplyRule(rule, style, class_name) ==
    CASE rule = "static" -> Applied(style, StaticMutation(class_name))
      [] rule = "bg" -> ApplyColor(style, "bg", DynamicColor(class_name, s_bg_prefix))
      [] rule = "text_color" ->
            ApplyColor(style, "text_color", DynamicColor(class_name, s_text_color_prefix))
      [] rule = "border_color" ->
            ApplyColor(style, "border_color", DynamicColor(class_name, s_border_color_prefix))
      [] rule = "rounded" ->
            ApplySized(style,
                       RoundedOp(SideCode(From(class_name, Len(s_rounded_prefix) + 1))),
                       From(class_name, Len(s_rounded_prefix) + 1))
      [] rule = "border" ->
            ApplySized(style,
                       BorderOp(SideCode(From(class_name, Len(s_border_prefix) + 1))),
                       From(class_name, Len(s_border_prefix) + 1))
      [] OTHER -> Unrecognized(style, class_name)

\* tree.rs:203-328: one iteration of the class loop on the element's style;
\* [ok, style], ok = FALSE when hex_to_rgba or a slice panics
ApplyClass(style, class_name) == ApplyRule(Rule(class_name), style, class_name)

\* class_attr_value.split_whitespace(): the maximal runs of characters that
\* are not white space, from position i on, cur being the run in progress
RECURSIVE SplitFrom(_, _, _)
SplitFrom(s, i, cur) ==
    IF i > Len(s) THEN (IF cur = <<>> THEN <<>> ELSE <<cur>>)
    ELSE IF IsSpace(s[i])
    THEN (IF cur = <<>> THEN <<>> ELSE <<cur>>) \o SplitFrom(s, i + 1, <<>>)
    ELSE SplitFrom(s, i + 1, Append(cur, s[i]))

SplitWhitespace(s) == SplitFrom(s, 1, <<>>)

\* attributes.iter().find(|(k, _)| k == key).map(|(_, v)| v): <<>> or <<v>>
FindAttribute(attributes, key) ==
    IF \E i \in 1..Len(attributes) : attributes[i][1] = key
    THEN <<attributes[CHOOSE i \in 1..Len(attributes) :
              attributes[i][1] = key
              /\ \A j \in 1..(i - 1) : attributes[j][1] # key][2]>>
    ELSE <<>>

\* tree.rs:201-329: the class loop
RECURSIVE ApplyClasses(_, _)
\* tree.rs:203: the loop goes on with the element the iteration left
ApplyRest(r, style, rest) ==
    IF r.ok THEN ApplyClasses(r.style, rest) ELSE [ok |-> FALSE, style |-> style]

ApplyClasses(style, classes) ==
    IF classes = <<>> THEN [ok |-> TRUE, style |-> style]
    ELSE ApplyRest(ApplyClass(style, classes[1]), style, Tail(classes))

\* tree.rs:187-190
ApplyFont(style, attributes) ==
    IF FindAttribute(attributes, s_font) # <<>>
    THEN Append(style, Mutation("font", FindAttribute(attributes, s_font)[1],
                                NoLength, NoColor))
    ELSE style

\* tree.rs:185-333: [ok, style]
set_attributes(style, attributes) ==
    IF FindAttribute(attributes, s_class) # <<>>
    THEN ApplyClasses(ApplyFont(style, attributes),
                      SplitWhitespace(FindAttribute(attributes, s_class)[1]))
    ELSE [ok |-> TRUE, style |-> ApplyFont(style, attributes)]

-----------------------------------------------------------------------------
(* render_component *)

s_img_error ==
    <<"E", "r", "r", "o", "r", ":", " ", "i", "m", "g", " ", "e", "l", "e", "m", "e", "n", "t", " ", "m", "u", "s", "t", " ", "h", "a", "v", "e", " ", "s", "r", "c", " ", "a", "t", "t", "r", "i", "b", "u", "t", "e">>

\* a gpui element: kind is "Div", "Img" or "Svg" (ComponentType), or "Text"
\* for a literal text child; id is a ghost field, the Component it renders
Element(kind, id, arg, children, style) ==
    [kind |-> kind, id |-> id, arg |-> arg, children |-> children, style |-> style]

TextChild(text) == Element("Text", 0, text, <<>>, <<>>)

\* variant of DivChildren: the text is attached before the children
DivChildrenTextFirst(kids, text) ==
    (IF text # <<>> THEN <<TextChild(text[1])>> ELSE <<>>) \o kids

\* tree.rs:109-124: the children of a div, in the order they are attached
DivChildren(kids, text) ==
    kids \o (IF text # <<>> THEN <<TextChild(text[1])>> ELSE <<>>)

\* tree.rs:142, 158
DiagnosticDiv(id) == Element("Div", id, <<>>, <<TextChild(s_img_error)>>, <<>>)

\* tree.rs:161
EmptyDiv(id) == Element("Div", id, <<>>, <<>>, <<>>)

Panicked == [ok |-> FALSE, element |-> EmptyDiv(0)]

\* tree.rs:137-139, 152-154: img(src) or svg().path(path) with the
\* mutations st of set_attributes
StyledLeaf(component, kind, value, st) ==
    IF st.ok
    THEN [ok |-> TRUE, element |-> Element(kind, component.id, value, <<>>, st.style)]
    ELSE Panicked

\* variant of RenderLeaf: the attribute is unwrapped, so that an element
\* without it panics
RenderLeafUnwrap(component, kind, key) ==
    IF FindAttribute(component.attributes, key) # <<>>
    THEN StyledLeaf(component, kind, FindAttribute(component.attributes, key)[1],
                    set_attributes(<<>>, component.attributes))
    ELSE Panicked

\* tree.rs:129-160: img (key "src") and svg (key "path")
RenderLeaf(component, kind, key) ==
    IF FindAttribute(component.attributes, key) # <<>>
    THEN StyledLeaf(component, kind, FindAttribute(component.attributes, key)[1],
                    set_attributes(<<>>, component.attributes))
    ELSE [ok |-> TRUE, element |-> DiagnosticDiv(component.id)]

\* variant of RenderOther: the text of the element is attached
RenderOtherWithText(component) ==
    [ok |-> TRUE,
     element |-> Element("Div", component.id, <<>>,
                         DivChildren(<<>>, component.text), <<>>)]

\* tree.rs:161: _ => ComponentType::Div(div())
RenderOther(component) == [ok |-> TRUE, element |-> EmptyDiv(component.id)]

\* tree.rs:106-126: the div of the rendered children kids, the text and the
\* mutations st of set_attributes
RenderDiv(component, kids, st) ==
    IF (\A i \in 1..Len(kids) : kids[i].ok) /\ st.ok
    THEN [ok |-> TRUE,
          element |-> Element("Div", component.id, <<>>,
                              DivChildren([i \in 1..Len(kids) |-> kids[i].element],
                                          component.text),
                              st.style)]
    ELSE Panicked

\* tree.rs:104-165: [ok, element]; ok = FALSE when set_attributes panics
\* anywhere in the tree
RECURSIVE render_component(_)
render_component(component) ==
    CASE component.elem = s_div ->
            RenderDiv(component,
                      [i \in 1..Len(component.children) |->
                          render_component(component.children[i])],
                      set_attributes(<<>>, component.attributes))
      [] component.elem = s_img -> RenderLeaf(component, "Img", s_src)
      [] component.elem = s_svg -> RenderLeaf(component, "Svg", s_path)
      [] OTHER -> RenderOther(component)

-----------------------------------------------------------------------------
(* Documents: the markup items the reader is given *)

Attr(key, value) == [key |-> key, value |-> value, ok |-> TRUE]

\* an attribute html_attributes() rejects
BadAttr == [key |-> <<>>, value |-> <<>>, ok |-> FALSE]

Tag(name, attrs) == [name |-> name, attrs |-> attrs]

\* a vocabulary: the start tags, the names of the close tags and the text
\* runs documents are written with
Vocabulary(tags, ends, texts) == [tags |-> tags, ends |-> ends, texts |-> texts]

\* the documents of Spec: element names in several spellings, nesting, text
ParseVocab ==
    Vocabulary(
        {Tag(<<"d", "i", "v">>, <<>>),
         Tag(<<"D", "i", "v">>, <<Attr(<<"c", "l", "a", "s", "s">>, <<"f", "l", "e", "x">>)>>),
         Tag(<<"x", ":", "d", "i", "v">>, <<Attr(<<"x", ":", "c", "l", "a", "s", "s">>, <<"p", "-", "4", " ", " ", "b", "o", "g", "u", "s", " ", "p", "-", "4">>)>>),
         Tag(<<"i", "m", "g">>, <<Attr(<<"s", "r", "c">>, <<"a", "&", "a", "m", "p", ";", "b", ".", "p", "n", "g">>), BadAttr>>)},
        {<<"d", "i", "v">>, <<"i", "m", "g">>},
        {<<" ", "h", "e", "l", "l", "o", " ">>, <<"a", " ", "&", "l", "t", ";", " ", "b">>, <<"&", "b", "o", "g", "u", "s", ";">>, <<" ", " ">>})

NoEvent == [type |-> "None", id |-> 0, text |-> <<>>]
Ev(type, id, text) == [type |-> type, id |-> id, text |-> text]

\* ghost: one element of the document: its name as written, the element
\* that encloses it (0 at top level), whether its tag is self-closing, the
\* height of the stack when its tag was read and whether its close has been
\* read
DocElem(name, parent, empty, depth) ==
    [name |-> name, parent |-> parent, empty |-> empty, depth |-> depth,
     closed |-> FALSE]

NoDoc == [elems |-> <<>>, stray |-> FALSE]

InnerOpen == IF opened = <<>> THEN 0 ELSE Last(opened)

CloseInDoc(d, id) == [d EXCEPT !.elems[id].closed = TRUE]

-----------------------------------------------------------------------------
(* The parse loop (tree.rs:26-85), one action per markup item read, then the
   return (tree.rs:87-92) and the render of the returned tree *)

InitWith(v) ==
    /\ pc = "parsing"
    /\ vocab = v
    /\ doc = NoDoc
    /\ opened = <<>>
    /\ pending = FALSE
    /\ nread = 0
    /\ event = NoEvent
    /\ stack = <<>>
    /\ result = <<>>
    /\ rendered = <<>>
    /\ class_list = <<>>
    /\ styled = <<>>
    /\ input = <<>>
    /\ output = <<>>

Init == InitWith(ParseVocab)

CanRead == pc = "parsing" /\ ~pending /\ nread < MaxItems

Panic ==
    /\ pc' = "panicked"
    /\ UNCHANGED <<vocab, doc, opened, pending, event, stack, result, rendered>>

\* Event::Start (tree.rs:30-65) for an open tag <name attrs>
ReadStart ==
    /\ CanRead
    /\ UNCHANGED fnVars
    /\ nread' = nread + 1
    /\ \E tag \in vocab.tags :
        LET id == Len(doc.elems) + 1
        IN  IF AttributesPanic(tag.attrs) THEN Panic
            ELSE /\ doc' = [doc EXCEPT !.elems = Append(@, DocElem(tag.name, InnerOpen, FALSE, Len(stack)))]
                 /\ opened' = Append(opened, id)
                 /\ event' = Ev("Start", id, <<>>)
                 /\ stack' = OnStartOrEmpty(stack, FALSE,
                                            NewComponent(id, tag.name, tag.attrs))
                 /\ UNCHANGED <<pc, vocab, pending, result, rendered>>

\* a self-closing tag <name attrs/>: with expand_empty_elements the reader
\* delivers Event::Start now and Event::End on the next read, without it
\* Event::Empty (tree.rs:30-65)
ReadEmptyTag ==
    /\ CanRead
    /\ UNCHANGED fnVars
    /\ nread' = nread + 1
    /\ \E tag \in vocab.tags :
        LET id == Len(doc.elems) + 1
        IN  IF AttributesPanic(tag.attrs) THEN Panic
            ELSE /\ doc' = [doc EXCEPT !.elems =
                               Append(@, [DocElem(tag.name, InnerOpen, TRUE, Len(stack))
                                            EXCEPT !.closed = ~ExpandEmptyElements])]
                 /\ opened' = IF ExpandEmptyElements THEN Append(opened, id) ELSE opened
                 /\ pending' = ExpandEmptyElements
                 /\ event' = Ev(IF ExpandEmptyElements THEN "Start" ELSE "Empty", id, <<>>)
                 /\ stack' = OnStartOrEmpty(stack, ~ExpandEmptyElements,
                                            NewComponent(id, tag.name, tag.attrs))
                 /\ UNCHANGED <<pc, vocab, result, rendered>>

\* Event::End (tree.rs:66-73)
HandleEnd ==
    /\ doc' = CloseInDoc(doc, Last(opened))
    /\ opened' = Front(opened)
    /\ event' = Ev("End", Last(opened), <<>>)
    /\ stack' = OnEnd(stack)
    /\ UNCHANGED <<pc, vocab, result, rendered>>

\* the End the reader owes for an expanded self-closing tag
ReadExpandedEnd ==
    /\ pc = "parsing"
    /\ UNCHANGED fnVars
    /\ pending
    /\ pending' = FALSE
    /\ nread' = nread
    /\ HandleEnd

\* a close tag </name>: with check_end_names one that does not name the
\* innermost open element is an Err (tree.rs:82)
ReadEnd ==
    /\ CanRead
    /\ UNCHANGED fnVars
    /\ nread' = nread + 1
    /\ \E name \in vocab.ends :
        IF opened = <<>> \/ (CheckEndNames /\ doc.elems[Last(opened)].name # name)
        THEN Panic
        ELSE pending' = pending /\ HandleEnd

\* a text run: dropped by trim_text when it is all white space, else
\* Event::Text (tree.rs:74-79)
ReadText ==
    /\ CanRead
    /\ UNCHANGED fnVars
    /\ nread' = nread + 1
    /\ \E raw \in vocab.texts :
        IF TrimText(raw) = <<>>
        THEN UNCHANGED <<pc, vocab, doc, opened, pending, event, stack, result, rendered>>
        ELSE IF ~Unescape(TrimText(raw)).ok THEN Panic
        ELSE /\ event' = Ev("Text", InnerOpen, Unescape(TrimText(raw)).value)
             /\ stack' = OnText(stack, Unescape(TrimText(raw)).value)
             /\ doc' = [doc EXCEPT !.stray = @ \/ opened = <<>>]
             /\ UNCHANGED <<pc, vocab, opened, pending, result, rendered>>

\* a comment, declaration, processing instruction or CDATA section
\* (tree.rs:80)
ReadOther ==
    /\ CanRead
    /\ UNCHANGED fnVars
    /\ nread' = nread + 1
    /\ event' = Ev("Other", 0, <<>>)
    /\ UNCHANGED <<pc, vocab, doc, opened, pending, stack, result, rendered>>

\* Event::Eof (tree.rs:28) and the return (tree.rs:87-92)
ReadEof ==
    /\ pc = "parsing"
    /\ UNCHANGED fnVars
    /\ ~pending
    /\ pc' = "parsed"
    /\ event' = Ev("Eof", 0, <<>>)
    /\ result' = <<PopOrError(stack)>>
    /\ stack' = IF stack = <<>> THEN stack ELSE Front(stack)
    /\ UNCHANGED <<vocab, doc, opened, pending, nread, rendered>>

\* the view holds the element tree r, unless the render panicked
Rendering(r) ==
    /\ pc' = IF r.ok THEN "rendered" ELSE "panicked"
    /\ rendered' = IF r.ok THEN <<r.element>> ELSE rendered

\* hello.rs:106: render_component(&self.root_component)
Render ==
    /\ pc = "parsed"
    /\ UNCHANGED fnVars
    /\ Rendering(render_component(result[1]))
    /\ UNCHANGED <<vocab, doc, opened, pending, nread, event, stack, result>>

Next ==
    \/ ReadStart
    \/ ReadEmptyTag
    \/ ReadExpandedEnd
    \/ ReadEnd
    \/ ReadText
    \/ ReadOther
    \/ ReadEof
    \/ Render

Spec == Init /\ [][Next]_vars

\* the documents of RenderSpec: styled div, img and svg elements, with and
\* without the attribute their element needs
RenderVocab ==
    Vocabulary(
        {Tag(<<"d", "i", "v">>, <<Attr(<<"f", "o", "n", "t">>, <<"m", "o", "n", "o">>), Attr(<<"c", "l", "a", "s", "s">>, <<"f", "l", "e", "x", "-", "c", "o", "l", " ", "b", "o", "g", "u", "s", " ", " ", "f", "l", "e", "x", "-", "c", "o", "l">>)>>),
         Tag(<<"d", "i", "v">>, <<Attr(<<"c", "l", "a", "s", "s">>, <<"p", "-", "4", " ", "f", "l", "e", "x">>)>>),
         Tag(<<"i", "m", "g">>, <<Attr(<<"f", "o", "n", "t">>, <<"m", "o", "n", "o">>), Attr(<<"c", "l", "a", "s", "s">>, <<"b", "g", "-", "[", "#", "z", "z", "]">>)>>),
         Tag(<<"i", "m", "g">>, <<Attr(<<"s", "r", "c">>, <<"a", ".", "p", "n", "g">>), Attr(<<"c", "l", "a", "s", "s">>, <<"w", "-", "4">>)>>),
         Tag(<<"s", "v", "g">>, <<Attr(<<"c", "l", "a", "s", "s">>, <<"f", "l", "e", "x">>)>>)},
        {<<"d", "i", "v">>},
        {<<"h", "i">>})

RenderInit == InitWith(RenderVocab)

RenderSpec == RenderInit /\ [][Next]_vars

\* the documents of ColourSpec: elements with colour classes, well written
\* and malformed, on div elements and on an element of another name
ColourVocab ==
    Vocabulary(
        {Tag(<<"s", "p", "a", "n">>, <<Attr(<<"f", "o", "n", "t">>, <<"m", "o", "n", "o">>), Attr(<<"c", "l", "a", "s", "s">>, <<"f", "l", "e", "x", " ", "b", "g", "-", "[", "#", "z", "z", "]">>)>>),
         Tag(<<"d", "i", "v">>, <<Attr(<<"c", "l", "a", "s", "s">>, <<"b", "g", "-", "[", "#", "f", "f", "0", "0", "0", "0", "]", " ", "t", "o", "t", "a", "l", "l", "y", "-", "b", "o", "g", "u", "s", " ", "r", "o", "u", "n", "d", "e", "d", "-", "x", "p", "x">>)>>),
         Tag(<<"d", "i", "v">>, <<Attr(<<"c", "l", "a", "s", "s">>, <<"t", "e", "x", "t", "-", "c", "o", "l", "o", "r", "-", "[", "#", "1", "2", "3", "4", "5", "]">>)>>),
         Tag(<<"d", "i", "v">>, <<Attr(<<"c", "l", "a", "s", "s">>, <<"b", "o", "r", "d", "e", "r", "-", "[", "#", "g", "g", "0", "0", "0", "0", "]">>)>>),
         Tag(<<"d", "i", "v">>, <<Attr(<<"c", "l", "a", "s", "s">>, <<"b", "g", "-", "[", "#", "+", "f", "0", "0", "0", "0", "]">>)>>)},
        {<<"d", "i", "v">>, <<"s", "p", "a", "n">>},
        {<<"h", "i">>})

ColourInit == InitWith(ColourVocab)

ColourSpec == ColourInit /\ [][Next]_vars

-----------------------------------------------------------------------------
(* set_attributes, hex_to_rgba and extract_length_from_class_name called on
   their own *)

\* the parse and render variables while one function is called on its own
Idle ==
    /\ vocab = Vocabulary({}, {}, {})
    /\ doc = NoDoc
    /\ opened = <<>>
    /\ pending = FALSE
    /\ nread = 0
    /\ event = NoEvent
    /\ stack = <<>>
    /\ result = <<>>
    /\ rendered = <<>>

\* the sequences of at most n elements of S
SeqsUpTo(S, n) == UNION {[1..k -> S] : k \in 0..n}

\* the class names class attributes are written with
ClassVocab ==
    {<<"f", "l", "e", "x", "-", "c", "o", "l">>, <<"t", "o", "t", "a", "l", "l", "y", "-", "b", "o", "g", "u", "s">>, <<"r", "o", "u", "n", "d", "e", "d", "-", "4", "p", "x">>,
     <<"b", "g", "-", "[", "#", "f", "f", "0", "0", "0", "0", "]">>, <<"b", "g", "-", "[", "#", "z", "z", "]">>}

\* a class attribute value: the names separated by one or two spaces
RECURSIVE JoinClasses(_)
JoinClasses(tokens) ==
    IF tokens = <<>> THEN <<>>
    ELSE IF Len(tokens) = 1 THEN tokens[1]
    ELSE tokens[1]
         \o (IF Len(tokens) % 2 = 0 THEN <<" ", " ">> ELSE <<" ">>)
         \o JoinClasses(Tail(tokens))

\* the attribute lists set_attributes is called with: a font attribute or
\* none, then a class attribute or none
StyleInputs ==
    {font \o class :
        font \in {<<>>, <<<<s_font, <<"m", "o", "n", "o">>>>>>},
        class \in {<<>>} \cup {<<<<s_class, JoinClasses(t)>>>> :
                                  t \in SeqsUpTo(ClassVocab, MaxTokens)}}

StyleInit ==
    /\ pc = "set_attributes"
    /\ Idle
    /\ input \in StyleInputs
    /\ class_list = <<>>
    /\ styled = <<>>
    /\ output = <<>>

\* tree.rs:186-201: the font attribute, then the class attribute is split
FontAttribute ==
    /\ pc = "set_attributes"
    /\ styled' = ApplyFont(styled, input)
    /\ class_list' = IF FindAttribute(input, s_class) # <<>>
                     THEN SplitWhitespace(FindAttribute(input, s_class)[1])
                     ELSE <<>>
    /\ pc' = "class_loop"
    /\ UNCHANGED <<input, output, parseVars>>

\* tree.rs:203-328: one iteration of the class loop
ClassLoop ==
    /\ pc = "class_loop"
    /\ class_list # <<>>
    /\ LET r == ApplyClass(styled, Head(class_list))
       IN  /\ pc' = IF r.ok THEN pc ELSE "panicked"
           /\ styled' = r.style
           /\ class_list' = IF r.ok THEN Tail(class_list) ELSE class_list
    /\ UNCHANGED <<input, output, parseVars>>

\* tree.rs:332: the element is returned
ReturnElement ==
    /\ pc = "class_loop"
    /\ class_list = <<>>
    /\ output' = <<styled>>
    /\ pc' = "styled"
    /\ UNCHANGED <<input, class_list, styled, parseVars>>

StyleNext == FontAttribute \/ ClassLoop \/ ReturnElement

StyleSpec == StyleInit /\ [][StyleNext]_vars

\* the class names of SizeSpec: radius and border widths written with a
\* length, with and without a side
SizeVocab ==
    {<<"r", "o", "u", "n", "d", "e", "d", "-", "t", "-", "4", "p", "x">>, <<"r", "o", "u", "n", "d", "e", "d", "-", "b", "l", "-", "2", "r", "e", "m">>, <<"b", "o", "r", "d", "e", "r", "-", "l", "-", "7", "p", "x">>,
     <<"b", "o", "r", "d", "e", "r", "-", "r", "-", "1", ".", "5", "r", "e", "m">>, <<"r", "o", "u", "n", "d", "e", "d", "-", "4", "p", "x">>, <<"r", "o", "u", "n", "d", "e", "d", "-", "2", ".", "5", "r", "e", "m">>}

SizeInit ==
    /\ pc = "set_attributes"
    /\ Idle
    /\ input \in {<<<<s_class, JoinClasses(t)>>>> : t \in SeqsUpTo(SizeVocab, MaxTokens)}
    /\ class_list = <<>>
    /\ styled = <<>>
    /\ output = <<>>

SizeSpec == SizeInit /\ [][StyleNext]_vars

\* class names of every rule of set_attributes: three of the static table
\* that also begin with a dynamic prefix, then dynamic and unmatched ones
RuleVocab ==
    {<<"b", "o", "r", "d", "e", "r", "-", "2">>, <<"r", "o", "u", "n", "d", "e", "d", "-", "m", "d">>, <<"b", "o", "r", "d", "e", "r", "-", "t">>, <<"b", "o", "r", "d", "e", "r", "-", "[", "#", "f", "f", "0", "0", "0", "0", "]">>,
     <<"b", "o", "r", "d", "e", "r", "-", "[", "#", "g", "g", "0", "0", "0", "0", "]">>, <<"b", "g", "-", "[", "#", "f", "f", "0", "0", "0", "0", "]">>, <<"t", "e", "x", "t", "-", "c", "o", "l", "o", "r", "-", "[", "#", "0", "0", "f", "f", "0", "0", "]">>,
     <<"r", "o", "u", "n", "d", "e", "d", "-", "4", "p", "x">>, <<"b", "o", "r", "d", "e", "r", "-", "l", "-", "7", "p", "x">>, <<"t", "o", "t", "a", "l", "l", "y", "-", "b", "o", "g", "u", "s">>}

RuleInit ==
    /\ pc = "set_attributes"
    /\ Idle
    /\ input \in {<<<<s_class, JoinClasses(t)>>>> : t \in SeqsUpTo(RuleVocab, MaxTokens)}
    /\ class_list = <<>>
    /\ styled = <<>>
    /\ output = <<>>

RuleSpec == RuleInit /\ [][StyleNext]_vars

\* the characters lengths are written with, and the lengths named in the
\* documentation
LengthAlphabet == {"4", ".", "p", "x", "r", "e", "m"}

LengthExamples ==
    {<<"4", "p", "x">>, <<"2", ".", "5", "r", "e", "m">>, <<"4">>, <<"x", "l", "p", "x">>, <<"p", "x">>, <<"r", "e", "m">>, <<"1", ".", "2", ".", "3", "r", "e", "m">>}

LengthInit ==
    /\ pc = "call"
    /\ Idle
    /\ input \in SeqsUpTo(LengthAlphabet, MaxLen) \cup LengthExamples
    /\ class_list = <<>>
    /\ styled = <<>>
    /\ output = <<>>

\* a call of extract_length_from_class_name (tree.rs:298, 314)
ExtractLength ==
    /\ pc = "call"
    /\ output' = <<extract_length_from_class_name(input)>>
    /\ pc' = "returned"
    /\ UNCHANGED <<input, class_list, styled, parseVars>>

LengthNext == ExtractLength

LengthSpec == LengthInit /\ [][LengthNext]_vars

\* the digits colours are written with, and the colours named in the
\* documentation
HexAlphabet == {"0", "a", "F"}

HexExamples == {<<"#", "0", "0", "0", "0", "0", "0">>, <<"#", "F", "F", "0", "0", "0", "0">>, <<"#", "0", "0", "F", "F", "0", "0", "8", "0">>}

HexInputs ==
    {hash \o digits :
        hash \in {<<>>, <<"#">>},
        digits \in UNION {[1..k -> HexAlphabet] : k \in 5..MaxHexLen}}
    \cup HexExamples

HexInit ==
    /\ pc = "call"
    /\ Idle
    /\ input \in HexInputs
    /\ class_list = <<>>
    /\ styled = <<>>
    /\ output = <<>>

\* a call of hex_to_rgba (tree.rs:281, 287, 293)
HexToRgba ==
    /\ pc = "call"
    /\ LET r == hex_to_rgba(input)
       IN  /\ pc' = IF r.ok THEN "returned" ELSE "panicked"
           /\ output' = IF r.ok THEN <<r>> ELSE output
    /\ UNCHANGED <<input, class_list, styled, parseVars>>

HexNext == HexToRgba

HexSpec == HexInit /\ [][HexNext]_vars

-----------------------------------------------------------------------------
(* Trees *)

RECURSIVE Concat(_)
Concat(ss) == IF ss = <<>> THEN <<>> ELSE ss[1] \o Concat(Tail(ss))

\* the Components of a tree, parents before children, in order
RECURSIVE Nodes(_)
Nodes(c) == <<c>> \o Concat([i \in 1..Len(c.children) |-> Nodes(c.children[i])])

\* the elements and literal texts of a rendered tree, in order
RECURSIVE Elements(_)
Elements(e) == <<e>> \o Concat([i \in 1..Len(e.children) |-> Elements(e.children[i])])

\* every Component parse_xml holds: on the stack or returned
Held == Concat([i \in 1..Len(stack \o result) |-> Nodes((stack \o result)[i])])

IdsOf(s) == [i \in 1..Len(s) |-> s[i].id]

ElementCount(e) == Len(SelectSeq(Elements(e), LAMBDA k : k.kind # "Text"))

Returned == pc \in {"parsed", "rendered"}

Done == pc \in {"rendered", "panicked"}

\* the document read is a well-formed one: a single top-level element, every
\* element closed, no text outside the top-level element
WellFormed ==
    /\ opened = <<>>
    /\ ~doc.stray
    /\ Cardinality({i \in 1..Len(doc.elems) : doc.elems[i].parent = 0}) = 1

\* the Component of the returned tree that stands for element id
NodeIn(nodes, id) == nodes[CHOOSE i \in 1..Len(nodes) : nodes[i].id = id]

\* the elements of the document enclosed directly by element id whose close
\* has been read, in document order
RECURSIVE ClosedChildren(_, _)
ClosedChildren(id, from) ==
    IF from > Len(doc.elems) THEN <<>>
    ELSE (IF doc.elems[from].parent = id /\ doc.elems[from].closed THEN <<from>> ELSE <<>>)
         \o ClosedChildren(id, from + 1)

Increasing(s) == \A i \in 1..(Len(s) - 1) : s[i] < s[i + 1]

-----------------------------------------------------------------------------
(* C1 *)

C1_Counts ==
    (Returned /\ doc.elems # <<>>) =>
        /\ Len(Nodes(result[1])) <= Len(doc.elems)
        /\ pc = "rendered" => ElementCount(rendered[1]) <= Len(doc.elems)

C1_Step ==
    doc.elems' # <<>> =>
        Len(Held') - Len(Held)
            <= IF event'.type \in {"Start", "Empty"} /\ Len(doc.elems') = Len(doc.elems) + 1
               THEN 1 ELSE 0

\* what is left to do: the items of the document not yet read, the End owed
\* for an expanded self-closing tag, the return and the render
Remaining ==
    CASE pc = "parsing" -> 2 * (MaxItems - nread) + (IF pending THEN 1 ELSE 0) + 2
      [] pc = "parsed" -> 1
      [] OTHER -> 0

\* the parse loop can read on and the returned tree can be rendered
CanStep == pc = "parsed" \/ ENABLED ReadEof \/ ENABLED ReadExpandedEnd

\* C1: parse_xml followed by render_component ends (every step leaves less
\* to do and no state before the end is stuck), the returned Component tree
\* and the element tree rendered from it (text children not counted) never
\* have more nodes than the document has open and self-closing tags, and a
\* step creates a Component only when it handles a Start (or Empty) event,
\* one at most.
C1_ParseRenderBounded ==
    /\ []C1_Counts
    /\ [](Done \/ CanStep)
    /\ [][C1_Step /\ Remaining' < Remaining]_vars

C1_Witness ==
    /\ pc = "rendered"
    /\ WellFormed
    /\ Len(doc.elems) >= 3
    /\ \E i \in 1..Len(doc.elems) : doc.elems[i].empty
    /\ Len(Nodes(result[1])) = Len(doc.elems)

-----------------------------------------------------------------------------
(* C2 *)

C2_Tree ==
    LET held == Held
        ids == IdsOf(held)
    IN  /\ \A i, j \in 1..Len(ids) : ids[i] = ids[j] => i = j
        /\ \A i \in 1..Len(held) :
            LET n == held[i]
                kids == IdsOf(n.children)
            IN  n.id # 0 =>
                    /\ Increasing(<<n.id>> \o kids)
                    /\ SelectSeq(kids, LAMBDA c : doc.elems[c].parent = n.id)
                           = ClosedChildren(n.id, 1)
                    /\ (Returned /\ WellFormed) => kids = ClosedChildren(n.id, 1)

C2_Rendered ==
    pc = "rendered" =>
        LET nodes == Nodes(result[1])
            elements == Elements(rendered[1])
        IN  \A i \in 1..Len(elements) :
                LET e == elements[i]
                IN  (e.kind = "Div" /\ e.id # 0 /\ NodeIn(nodes, e.id).elem = s_div) =>
                        IdsOf(SelectSeq(e.children, LAMBDA k : k.kind # "Text"))
                            = IdsOf(NodeIn(nodes, e.id).children)

\* C2: every element is held once (under one parent, or on the stack); the
\* children of every Component are in the order of their opening tags and
\* include, in that order, each of its child elements that has been closed
\* (they are exactly its child elements when the document is well-formed);
\* and every div Container has the rendered children of its Component in
\* that order.
C2_SiblingOrder == C2_Tree /\ C2_Rendered

C2_Witness ==
    /\ pc = "rendered"
    /\ WellFormed
    /\ rendered[1].kind = "Div"
    /\ Len(result[1].children) >= 2
    /\ Len(rendered[1].children) >= 2
    /\ result[1].children[1].elem # result[1].children[2].elem

-----------------------------------------------------------------------------
(* C3 *)

\* the names of the class attribute of Component n
C3_Tokens(n) ==
    IF FindAttribute(n.attributes, s_class) = <<>> THEN <<>>
    ELSE SplitWhitespace(FindAttribute(n.attributes, s_class)[1])

\* the mutations of the class names of n, one name after the other: each
\* name gives one mutation or, when no rule handles it, none
C3_ClassMutations(n) ==
    Concat([i \in 1..Len(C3_Tokens(n)) |-> ApplyClass(<<>>, C3_Tokens(n)[i]).style])

C3_FontMutation(n) ==
    IF FindAttribute(n.attributes, s_font) = <<>> THEN <<>>
    ELSE <<Mutation("font", FindAttribute(n.attributes, s_font)[1], NoLength, NoColor)>>

\* the children of Container e are the rendered children of n in order,
\* then the text of n, if any, as the last child
C3_Children(e, n) ==
    /\ Len(e.children) = Len(n.children) + Len(n.text)
    /\ \A i \in 1..Len(n.children) :
        /\ e.children[i].kind # "Text"
        /\ e.children[i].id = n.children[i].id
    /\ n.text # <<>> => Last(e.children) = TextChild(n.text[1])

\* P(e, n) for every Container e rendered from a div Component n
C3_EveryDiv(P(_, _)) ==
    pc = "rendered" =>
        LET nodes == Nodes(result[1])
            elements == Elements(rendered[1])
        IN  \A i \in 1..Len(elements) :
                (elements[i].kind # "Text" /\ elements[i].id # 0
                 /\ NodeIn(nodes, elements[i].id).elem = s_div) =>
                    /\ elements[i].kind = "Div"
                    /\ P(elements[i], NodeIn(nodes, elements[i].id))

C3_StyleFromClass(e, n) ==
    C3_Children(e, n) /\ e.style = C3_ClassMutations(n)

C3_StyleFromFontAndClass(e, n) ==
    /\ C3_Children(e, n)
    /\ e.style = C3_FontMutation(n) \o C3_ClassMutations(n)
    /\ \A i \in 1..Len(C3_Tokens(n)) : Len(ApplyClass(<<>>, C3_Tokens(n)[i]).style) <= 1

\* C3 as claimed: a div renders to a Container whose children are its
\* rendered element children in document order followed by its text as the
\* single last child, and whose style mutations are exactly those of the
\* names of its class attribute, left to right, one per recognised name.
C3_ClassTokensOnly == C3_EveryDiv(C3_StyleFromClass)

\* C3 amended: the children are as claimed; the style mutations are the font
\* mutation of the font attribute, when the div has one, followed by those of
\* the names of its class attribute, left to right, one per recognised name
\* (a repeated name is applied again).
C3_DivContainer == C3_EveryDiv(C3_StyleFromFontAndClass)

C3_Witness ==
    /\ pc = "rendered"
    /\ result[1].elem = s_div
    /\ Len(result[1].children) = 2
    /\ result[1].text # <<>>
    /\ Len(rendered[1].children) = 3
    /\ rendered[1].children[3].kind = "Text"
    /\ Len(rendered[1].style) = 3
    /\ rendered[1].style[1].op = "font"
    /\ rendered[1].style[2] = rendered[1].style[3]
    /\ rendered[1].style[2].name = <<"f", "l", "e", "x", "_", "c", "o", "l">>

-----------------------------------------------------------------------------
(* C4 *)

\* the name stored for element n is its source name without the prefix that
\* ends at its first colon, character for character
AsWritten(n) ==
    LET name == doc.elems[n.id].name
        cut == Len(name) - Len(n.elem)
    IN  /\ cut >= 0
        /\ From(name, cut + 1) = n.elem
        /\ cut > 0 => name[cut] = ":" /\ \A k \in 1..(cut - 1) : name[k] # ":"
        /\ cut = 0 => \A k \in 1..Len(name) : name[k] # ":"

\* C4 as claimed: every Component's tag is the lower-cased local name of its
\* element.
C4_LowerCased ==
    LET held == Held
    IN  \A i \in 1..Len(held) :
            held[i].id # 0 =>
                held[i].elem = ToLower(LocalName(doc.elems[held[i].id].name))

\* C4 amended: every Component's tag is the local name of its element exactly
\* as written (case kept), and an element whose local name is not exactly
\* "div", "img" or "svg" (such as <Div>) renders as the empty Container of
\* the catch-all branch, whatever its class, text and children.
C4_TagAsWritten ==
    LET held == Held
    IN  /\ \A i \in 1..Len(held) : held[i].id # 0 => AsWritten(held[i])
        /\ pc = "rendered" =>
            LET elements == Elements(rendered[1])
            IN  \A i \in 1..Len(elements) :
                    LET e == elements[i]
                    IN  (e.kind # "Text" /\ e.id # 0
                         /\ ToLower(doc.elems[e.id].name) # doc.elems[e.id].name) =>
                            e = EmptyDiv(e.id)

C4_Witness ==
    /\ pc = "rendered"
    /\ doc.elems # <<>>
    /\ doc.elems[1].name = <<"D", "i", "v">>
    /\ result[1].elem = <<"D", "i", "v">>
    /\ result[1].children # <<>>
    /\ FindAttribute(result[1].attributes, s_class) # <<>>
    /\ rendered[1] = EmptyDiv(1)

-----------------------------------------------------------------------------
(* C5 *)

\* C5 as claimed: once a self-closing element met with a non-empty stack
\* has been handled, the stack is as high as before and the element is the
\* last child of its top, childless and without text; one met with an empty
\* stack is the root parse_xml returns.
C5_SelfClosing ==
    /\ (event.type = "End" /\ doc.elems[event.id].empty /\ doc.elems[event.id].depth > 0) =>
        /\ Len(stack) = doc.elems[event.id].depth
        /\ Last(stack).children # <<>>
        /\ Last(Last(stack).children).id = event.id
        /\ Last(Last(stack).children).children = <<>>
        /\ Last(Last(stack).children).text = <<>>
    /\ (Returned /\ doc.elems # <<>> /\ doc.elems[1].empty) => result[1].id = 1

\* the first part of C5 alone
C5_NestedSelfClosing ==
    (event.type = "End" /\ doc.elems[event.id].empty /\ doc.elems[event.id].depth > 0) =>
        /\ Len(stack) = doc.elems[event.id].depth
        /\ Last(stack).children # <<>>
        /\ Last(Last(stack).children).id = event.id
        /\ Last(Last(stack).children).children = <<>>
        /\ Last(Last(stack).children).text = <<>>

-----------------------------------------------------------------------------
(* C6 *)

\* C6: while parsing the stack is empty exactly when no element has been
\* opened; parse_xml returns the sentinel (tag "error", text "error", no
\* attributes, no children) when it reaches the end of a document without
\* any element, and a Component of the document in every other case.
C6_Sentinel ==
    /\ pc = "parsing" => (stack = <<>> <=> doc.elems = <<>>)
    /\ Returned =>
        /\ doc.elems = <<>> =>
            /\ result[1].elem = <<"e", "r", "r", "o", "r">>
            /\ result[1].text = <<<<"e", "r", "r", "o", "r">>>>
            /\ result[1].attributes = <<>>
            /\ result[1].children = <<>>
            /\ result[1].id = 0
        /\ doc.elems # <<>> =>
            /\ result[1].id \in 1..Len(doc.elems)
            /\ result[1].elem = LocalName(doc.elems[result[1].id].name)

C6_Witness ==
    /\ Returned
    /\ doc.stray
    /\ doc.elems = <<>>
    /\ result = <<ErrorComponent>>

-----------------------------------------------------------------------------
(* C7 *)

\* no exact match in the static table and no dynamic rule for class name t
C7_NoMatch(t) ==
    /\ t \notin StaticClasses
    /\ ~StartsWith(t, <<"b", "g", "-", "[", "#">>)
    /\ ~StartsWith(t, <<"t", "e", "x", "t", "-", "c", "o", "l", "o", "r", "-", "[", "#">>)
    /\ ~StartsWith(t, <<"b", "o", "r", "d", "e", "r", "-", "[", "#">>)
    /\ ~StartsWith(t, <<"r", "o", "u", "n", "d", "e", "d", "-">>)
    /\ ~StartsWith(t, <<"b", "o", "r", "d", "e", "r", "-">>)

C7_FlexCol == Mutation("method", <<"f", "l", "e", "x", "_", "c", "o", "l">>, NoLength, NoColor)

\* one iteration of the class loop on a name without a match changes
\* nothing but the names left; one on "flex-col" appends its one mutation
C7_Step ==
    (pc = "class_loop" /\ class_list # <<>>) =>
        /\ C7_NoMatch(Head(class_list)) =>
            /\ styled' = styled
            /\ pc' = "class_loop"
            /\ class_list' = Tail(class_list)
        /\ Head(class_list) = <<"f", "l", "e", "x", "-", "c", "o", "l">> =>
            /\ styled' = Append(styled, C7_FlexCol)
            /\ pc' = "class_loop"
            /\ class_list' = Tail(class_list)

\* the names of the class attribute set_attributes was called with
C7_Tokens ==
    IF FindAttribute(input, s_class) = <<>> THEN <<>>
    ELSE SplitWhitespace(FindAttribute(input, s_class)[1])

\* the element returned has one mutation for the font attribute and for
\* every class name with a match, wherever the names without one stand, and
\* "flex_col" as many times as the class attribute names "flex-col"
C7_Returned ==
    pc = "styled" =>
        /\ Len(output[1])
              = Len(FindAttribute(input, s_font))
                + Len(SelectSeq(C7_Tokens, LAMBDA t : ~C7_NoMatch(t)))
        /\ Len(SelectSeq(output[1], LAMBDA m : m = C7_FlexCol))
              = Len(SelectSeq(C7_Tokens, LAMBDA t : t = <<"f", "l", "e", "x", "-", "c", "o", "l">>))

\* set_attributes panics on no class name without a match
C7_NoAbort ==
    pc = "panicked" => class_list # <<>> /\ ~C7_NoMatch(Head(class_list))

\* C7: a class name with no exact match in the static table and no dynamic
\* rule leaves the style of the element as it was, does not abort and does
\* not keep the names after it from being applied; the static name
\* "flex-col" applies its one mutation once for each time it is named.
C7_UnrecognizedClass ==
    /\ [][C7_Step]_vars
    /\ [](C7_Returned /\ C7_NoAbort)

C7_Witness ==
    /\ pc = "styled"
    /\ C7_Tokens = <<<<"f", "l", "e", "x", "-", "c", "o", "l">>, <<"t", "o", "t", "a", "l", "l", "y", "-", "b", "o", "g", "u", "s">>, <<"f", "l", "e", "x", "-", "c", "o", "l">>>>
    /\ FindAttribute(input, s_font) = <<>>
    /\ output = <<<<C7_FlexCol, C7_FlexCol>>>>

-----------------------------------------------------------------------------
(* C8 *)

C8_EndsWith(s, u) ==
    Len(s) >= Len(u) /\ SubSeq(s, Len(s) - Len(u) + 1, Len(s)) = u

C8_Before(s, u) == SubSeq(s, 1, Len(s) - Len(u))

\* s is made of digits and decimal points only (it may be empty)
C8_NumericRun(s) == \A i \in 1..Len(s) : s[i] \in Digits \cup {"."}

\* s is a magnitude: digits, at least one, with at most one decimal point
C8_IsMagnitude(s) ==
    /\ C8_NumericRun(s)
    /\ \E i \in 1..Len(s) : s[i] \in Digits
    /\ \A i, j \in 1..Len(s) : (s[i] = "." /\ s[j] = ".") => i = j

RECURSIVE C8_Pow10(_)
C8_Pow10(n) == IF n = 0 THEN 1 ELSE 10 * C8_Pow10(n - 1)

\* the length is magnitude s in unit u
C8_Is(length, u, s) ==
    LET digits == SelectSeq(s, LAMBDA c : c # ".")
        places == IF IndexOf(s, ".") = 0 THEN 0 ELSE Len(s) - IndexOf(s, ".")
    IN  /\ length.unit = u
        /\ length.mant * C8_Pow10(places) = DigitsValue(digits) * C8_Pow10(length.scale)

C8_IsZero(length, u) == length.unit = u /\ length.mant = 0

\* C8 as claimed: N pixels for N followed by "px", N rems for N followed by
\* "rem", and 0 pixels for every other input.
C8_ZeroPixelsOtherwise ==
    pc = "returned" =>
        IF C8_EndsWith(input, s_px) /\ C8_IsMagnitude(C8_Before(input, s_px))
        THEN C8_Is(output[1], "px", C8_Before(input, s_px))
        ELSE IF C8_EndsWith(input, s_rem) /\ C8_IsMagnitude(C8_Before(input, s_rem))
        THEN C8_Is(output[1], "rem", C8_Before(input, s_rem))
        ELSE C8_IsZero(output[1], "px")

\* C8 amended: extract_length_from_class_name returns N pixels for a
\* magnitude N followed by "px", N rems for N followed by "rem", 0 rems when
\* "rem" follows a missing or unparsable run of digits and points (as in
\* "rem" and "1.2.3rem"), and 0 pixels for every other input.
C8_Length ==
    pc = "returned" =>
        IF C8_EndsWith(input, s_px) /\ C8_IsMagnitude(C8_Before(input, s_px))
        THEN C8_Is(output[1], "px", C8_Before(input, s_px))
        ELSE IF C8_EndsWith(input, s_rem) /\ C8_IsMagnitude(C8_Before(input, s_rem))
        THEN C8_Is(output[1], "rem", C8_Before(input, s_rem))
        ELSE IF C8_EndsWith(input, s_rem) /\ C8_NumericRun(C8_Before(input, s_rem))
        THEN C8_IsZero(output[1], "rem")
        ELSE C8_IsZero(output[1], "px")

C8_Witness ==
    /\ pc = "returned"
    /\ input = <<"1", ".", "2", ".", "3", "r", "e", "m">>
    /\ output = <<Rems([mant |-> 0, scale |-> 0])>>

-----------------------------------------------------------------------------
(* C9 *)

\* the input without its leading '#'
C9_Digits == IF input # <<>> /\ input[1] = "#" THEN Tail(input) ELSE input

\* the base-16 value of the two digits at 0-based positions i, i + 1
C9_Pair(i) == 16 * HexValue(C9_Digits[i + 1]) + HexValue(C9_Digits[i + 2])

\* C9: hex_to_rgba does not fail on six hex digits or more; red, green and
\* blue are the values of the digit pairs at 0-1, 2-3 and 4-5; alpha is the
\* value of the pair at 6-7 when there are exactly 8 digits and 255
\* otherwise; every component is in 0..255 and the packed word holds each
\* in a byte of its own: (r * 256 + g) in its high half and (b * 256 + a)
\* in its low half.
C9_HexColour ==
    /\ pc = "panicked" => Len(C9_Digits) < 6
    /\ pc = "returned" =>
        LET c == output[1].color
        IN  /\ c.r = C9_Pair(0)
            /\ c.g = C9_Pair(2)
            /\ c.b = C9_Pair(4)
            /\ c.a = IF Len(C9_Digits) = 8 THEN C9_Pair(6) ELSE 255
            /\ {c.r, c.g, c.b, c.a} \subseteq 0..255
            /\ output[1].value = <<c.r * 256 + c.g, c.b * 256 + c.a>>

C9_Witness ==
    /\ pc = "returned"
    /\ input = <<"#", "0", "0", "F", "F", "0", "0", "8", "0">>
    /\ output[1].color = [r |-> 0, g |-> 255, b |-> 0, a |-> 128]

-----------------------------------------------------------------------------
(* C10 *)

\* n is an img without src or an svg without path
C10_Incomplete(n) ==
    \/ n.elem = s_img /\ \A i \in 1..Len(n.attributes) : n.attributes[i][1] # s_src
    \/ n.elem = s_svg /\ \A i \in 1..Len(n.attributes) : n.attributes[i][1] # s_path

\* C10: render_component does not fail on a tree that holds an img without
\* src or an svg without path; such a node renders to a Container with one
\* child, a literal text, and no style mutation (its class and font are not
\* applied); the Container of every div still holds the elements of all its
\* children in order, and an img with src beside it renders to an image of
\* that source.
C10_MissingAttribute ==
    /\ pc = "panicked" => result = <<>>
    /\ pc = "rendered" =>
        LET nodes == Nodes(result[1])
            elements == Elements(rendered[1])
        IN  \A i \in 1..Len(elements) :
                LET e == elements[i]
                    n == NodeIn(nodes, e.id)
                IN  (e.kind # "Text" /\ e.id # 0) =>
                        /\ C10_Incomplete(n) =>
                            /\ e.kind = "Div"
                            /\ Len(e.children) = 1
                            /\ e.children[1].kind = "Text"
                            /\ e.children[1].arg # <<>>
                            /\ e.children[1].children = <<>>
                            /\ e.style = <<>>
                        /\ n.elem = s_div =>
                            IdsOf(SelectSeq(e.children, LAMBDA k : k.kind # "Text"))
                                = IdsOf(n.children)
                        /\ (n.elem = s_img /\ ~C10_Incomplete(n)) =>
                            /\ e.kind = "Img"
                            /\ <<e.arg>> = FindAttribute(n.attributes, s_src)

C10_Witness ==
    /\ pc = "rendered"
    /\ result[1].elem = s_div
    /\ Len(result[1].children) = 2
    /\ result[1].children[1].elem = s_img
    /\ C10_Incomplete(result[1].children[1])
    /\ FindAttribute(result[1].children[1].attributes, s_class) = <<<<"b", "g", "-", "[", "#", "z", "z", "]">>>>
    /\ rendered[1].children[1] = DiagnosticDiv(2)
    /\ rendered[1].children[2].kind = "Img"
-----------------------------------------------------------------------------
(* C11 *)

\* the Components below Component c, at any depth
C11_Descendants(c) == Tail(Nodes(c))

\* n is neither a div, nor an img, nor an svg
C11_Other(n) == n.elem \notin {<<"d", "i", "v">>, <<"i", "m", "g">>, <<"s", "v", "g">>}

\* C11: a Component whose tag is not "div", "img" or "svg" renders to a
\* Container without children, text child or style mutation, whatever its
\* attributes, text and children; no element is rendered for any of its
\* descendants; and the render of a tree whose root is such a Component
\* does not fail.
C11_OtherTag ==
    /\ (pc = "panicked" /\ result # <<>>) => ~C11_Other(result[1])
    /\ pc = "rendered" =>
        LET nodes == Nodes(result[1])
            elements == Elements(rendered[1])
        IN  \A i \in 1..Len(nodes) :
                C11_Other(nodes[i]) =>
                    /\ \A j \in 1..Len(elements) :
                        (elements[j].kind # "Text" /\ elements[j].id = nodes[i].id) =>
                            /\ elements[j].kind = "Div"
                            /\ elements[j].children = <<>>
                            /\ elements[j].style = <<>>
                            /\ elements[j].arg = <<>>
                    /\ \A k \in 1..Len(C11_Descendants(nodes[i])) :
                        \A j \in 1..Len(elements) :
                            elements[j].kind # "Text" =>
                                elements[j].id # C11_Descendants(nodes[i])[k].id

C11_Witness ==
    /\ pc = "rendered"
    /\ result # <<>>
    /\ result[1].elem = <<"s", "p", "a", "n">>
    /\ result[1].text # <<>>
    /\ result[1].children # <<>>
    /\ result[1].children[1].elem = s_div
    /\ FindAttribute(result[1].attributes, s_class) = <<<<"f", "l", "e", "x", " ", "b", "g", "-", "[", "#", "z", "z", "]">>>>
    /\ rendered[1].kind = "Div"
    /\ rendered[1].children = <<>>
    /\ rendered[1].style = <<>>
-----------------------------------------------------------------------------
(* C12 *)

\* the step handles an element-close event
C12_IsEnd == event'.type = "End" /\ event' # event

\* an element-close event on a stack of more than one Component pops the
\* top and appends it to the children of the new top; on a stack of one
\* Component (or none) it leaves the stack as it is
C12_Step ==
    C12_IsEnd =>
        IF Len(stack) > 1
        THEN /\ Len(stack') = Len(stack) - 1
             /\ SubSeq(stack', 1, Len(stack) - 2) = SubSeq(stack, 1, Len(stack) - 2)
             /\ Last(stack') = [stack[Len(stack) - 1] EXCEPT
                                   !.children = Append(@, Last(stack))]
        ELSE stack' = stack

\* from the first element-open to the end of the document the stack holds
\* a Component, and its bottom frame is the first element opened
C12_RootStays ==
    (pc = "parsing" /\ doc.elems # <<>>) => (stack # <<>> /\ stack[1].id = 1)

\* C12: an element-close event never pops the last frame: with more than
\* one Component on the stack the top is popped and becomes the last child
\* of the new top, with one (or none) the stack is unchanged; so after the
\* first element-open the stack is never empty before end-of-document and
\* its bottom frame is the first element opened.
C12_CloseKeepsRoot == [][C12_Step]_vars /\ []C12_RootStays

C12_Witness ==
    /\ pc = "parsing"
    /\ event.type = "End"
    /\ event.id = 1
    /\ Len(stack) = 1
    /\ stack[1].id = 1
    /\ stack[1].children # <<>>
    /\ opened = <<>>
-----------------------------------------------------------------------------
(* C13 *)

\* C13 as claimed: when a document with at least one element has been read
\* to its end without an error, one frame was left on the stack and
\* parse_xml returns it: the first element opened, with every other
\* Component created during the parse below it.
C13_LoneFrame ==
    (Returned /\ doc.elems # <<>>) =>
        /\ stack = <<>>
        /\ result[1].id = 1
        /\ Len(Nodes(result[1])) = Len(doc.elems)

\* what holds of the return: when one frame was left on the stack at the
\* end of the document, it is the first element opened and every other
\* Component is below it
C13_WhenOneFrame ==
    (Returned /\ doc.elems # <<>> /\ stack = <<>>) =>
        /\ result[1].id = 1
        /\ Len(Nodes(result[1])) = Len(doc.elems)
-----------------------------------------------------------------------------
(* C14 *)

C14_Sides == {<<"t">>, <<"r">>, <<"b">>, <<"l">>, <<"t", "l">>, <<"t", "r">>, <<"b", "r">>, <<"b", "l">>}

\* what follows "rounded-" or "border-" in class name t
C14_Suffix(t) ==
    IF StartsWith(t, <<"r", "o", "u", "n", "d", "e", "d", "-">>) THEN From(t, 9) ELSE From(t, 8)

\* the side code of class name t (<<>> when it has none)
C14_Side(t) ==
    LET dash == IndexOf(C14_Suffix(t), "-")
    IN  IF dash > 0 /\ SubSeq(C14_Suffix(t), 1, dash - 1) \in C14_Sides
        THEN SubSeq(C14_Suffix(t), 1, dash - 1)
        ELSE <<>>

\* the text of class name t after its side code: <N><unit>
C14_LengthText(t) ==
    IF C14_Side(t) = <<>> THEN C14_Suffix(t)
    ELSE From(C14_Suffix(t), Len(C14_Side(t)) + 2)

\* the mutation that sets the radius or the border width of a side
C14_Op(t) ==
    IF StartsWith(t, <<"r", "o", "u", "n", "d", "e", "d", "-">>)
    THEN CASE C14_Side(t) = <<"t">> -> "rounded_t"
           [] C14_Side(t) = <<"r">> -> "rounded_r"
           [] C14_Side(t) = <<"b">> -> "rounded_b"
           [] C14_Side(t) = <<"l">> -> "rounded_l"
           [] C14_Side(t) = <<"t", "l">> -> "rounded_tl"
           [] C14_Side(t) = <<"t", "r">> -> "rounded_tr"
           [] C14_Side(t) = <<"b", "r">> -> "rounded_br"
           [] C14_Side(t) = <<"b", "l">> -> "rounded_bl"
           [] OTHER -> "rounded"
    ELSE CASE C14_Side(t) = <<"t">> -> "border_t_width"
           [] C14_Side(t) = <<"r">> -> "border_r_width"
           [] C14_Side(t) = <<"b">> -> "border_b_width"
           [] OTHER -> "border_l_width"

\* the length is the one written in class name t: N in its unit
C14_LengthWritten(length, t) ==
    IF C8_EndsWith(C14_LengthText(t), s_px)
    THEN C8_Is(length, "px", C8_Before(C14_LengthText(t), s_px))
    ELSE C8_Is(length, "rem", C8_Before(C14_LengthText(t), s_rem))

\* P(m, t) for every class name t of the class attribute and the mutation m
\* the returned element has for it
C14_EveryToken(P(_, _)) ==
    pc = "styled" =>
        /\ Len(output[1]) = Len(C7_Tokens)
        /\ \A i \in 1..Len(C7_Tokens) : P(output[1][i], C7_Tokens[i])

C14_SideAndLength(m, t) == m.op = C14_Op(t) /\ C14_LengthWritten(m.length, t)

\* C14 as claimed: a class name rounded-<side>-<N><unit> or
\* border-<side>-<N><unit> mutates the corners or the edge of its side code
\* with length N in the unit written, and rounded-<N><unit> all corners with
\* that length.
C14_SidedLength == C14_EveryToken(C14_SideAndLength)

C14_SideAndZero(m, t) ==
    /\ m.op = C14_Op(t)
    /\ IF C14_Side(t) = <<>> THEN C14_LengthWritten(m.length, t)
       ELSE C8_IsZero(m.length, "px")

\* what holds: the side code selects the mutation; the length is the one
\* written when the name has no side code and 0 pixels when it has one
C14_SideSelected == C14_EveryToken(C14_SideAndZero)
-----------------------------------------------------------------------------
(* C15 *)

\* the element method a static class name stands for
C15_Method(t) == [i \in 1..Len(t) |-> IF t[i] = "-" THEN "_" ELSE t[i]]

C15_RoundedOps ==
    {"rounded", "rounded_t", "rounded_r", "rounded_b", "rounded_l",
     "rounded_tl", "rounded_tr", "rounded_br", "rounded_bl"}

C15_WidthOps ==
    {"border_t_width", "border_r_width", "border_b_width", "border_l_width", "rounded"}

\* the step appends exactly one mutation, m
C15_One(P(_)) ==
    /\ pc' = pc
    /\ Len(styled') = Len(styled) + 1
    /\ SubSeq(styled', 1, Len(styled)) = styled
    /\ P(styled'[Len(styled')])

\* the colour rule of mutation op alone acts: its mutation, or its panic
C15_Colour(op) ==
    \/ pc' = "panicked" /\ styled' = styled
    \/ C15_One(LAMBDA m : m.op = op /\ m.name = <<>> /\ m.length = NoLength)

\* the first rule that matches class name t, in the fixed order, has acted
\* and no other
C15_FirstRule(t) ==
    IF t \in StaticClasses
    THEN C15_One(LAMBDA m : m = Mutation("method", C15_Method(t), NoLength, NoColor))
    ELSE IF StartsWith(t, <<"b", "g", "-", "[", "#">>) THEN C15_Colour("bg")
    ELSE IF StartsWith(t, <<"t", "e", "x", "t", "-", "c", "o", "l", "o", "r", "-", "[", "#">>) THEN C15_Colour("text_color")
    ELSE IF StartsWith(t, <<"b", "o", "r", "d", "e", "r", "-", "[", "#">>) THEN C15_Colour("border_color")
    ELSE IF StartsWith(t, <<"r", "o", "u", "n", "d", "e", "d", "-">>)
    THEN C15_One(LAMBDA m : m.op \in C15_RoundedOps /\ m.length # NoLength /\ m.color = NoColor)
    ELSE IF StartsWith(t, <<"b", "o", "r", "d", "e", "r", "-">>)
    THEN C15_One(LAMBDA m : m.op \in C15_WidthOps /\ m.length # NoLength /\ m.color = NoColor)
    ELSE pc' = pc /\ styled' = styled

C15_Step ==
    (pc = "class_loop" /\ class_list # <<>>) =>
        LET t == Head(class_list)
        IN  /\ C15_FirstRule(t)
            /\ pc' = pc => class_list' = Tail(class_list)
            /\ t \in {<<"b", "o", "r", "d", "e", "r", "-", "2">>, <<"r", "o", "u", "n", "d", "e", "d", "-", "m", "d">>, <<"b", "o", "r", "d", "e", "r", "-", "t">>} =>
                   styled'[Len(styled')].op = "method"
            /\ (StartsWith(t, <<"b", "o", "r", "d", "e", "r", "-", "[", "#">>) /\ pc' = pc) =>
                   styled'[Len(styled')].op = "border_color"
            /\ t = <<"b", "o", "r", "d", "e", "r", "-", "[", "#", "f", "f", "0", "0", "0", "0", "]">> =>
                   styled'[Len(styled')].color = [r |-> 255, g |-> 0, b |-> 0, a |-> 255]

\* C15: a class name is resolved by exactly one rule, the first that matches
\* in the order static table, bg-[#, text-color-[#, border-[#, rounded-,
\* border-, unrecognized: one mutation of that rule (or its panic) and nothing
\* else. border-2, rounded-md and border-t are static methods, never a
\* dynamic length; a name that starts with border-[# is a border colour,
\* never a border width.
C15_RuleOrder == [][C15_Step]_vars

\* border-t, border-[#ff0000] and border-l-7px have been applied in turn:
\* the static, the border colour and the border width rule
C15_Witness ==
    /\ pc = "styled"
    /\ Len(output[1]) = 3
    /\ output[1][1] = Mutation("method", <<"b", "o", "r", "d", "e", "r", "_", "t">>, NoLength, NoColor)
    /\ output[1][2].op = "border_color"
    /\ output[1][3].op = "border_l_width"
-----------------------------------------------------------------------------
(* C16 *)

\* the step reads a text run that the reader delivers as a text event
C16_IsText == event'.type = "Text" /\ nread' = nread + 1 /\ pc' = "parsing"

\* the text event of the step sets the text of the top Component, whatever
\* text it had, and leaves the rest of the stack, the result and the open
\* elements alone; on an empty stack it leaves the stack empty
C16_Step ==
    C16_IsText =>
        /\ IF stack = <<>> THEN stack' = <<>>
           ELSE /\ Len(stack') = Len(stack)
                /\ Front(stack') = Front(stack)
                /\ Last(stack') = [Last(stack) EXCEPT !.text = <<event'.text>>]
        /\ result' = result
        /\ opened' = opened
        /\ doc'.elems = doc.elems

\* a text event that follows the close of a child element: the text goes to
\* the element that encloses the child
C16_AfterChild ==
    (C16_IsText /\ event.type = "End" /\ doc.elems[event.id].parent # 0) =>
        /\ Last(stack').id = doc.elems[event.id].parent
        /\ Last(stack').text = <<event'.text>>
        /\ LET kids == Last(stack').children
           IN  /\ kids # <<>>
               /\ Last(kids).id = event.id
               /\ Last(kids) = Last(Last(stack).children)

\* the text of the last text event is the text of the top Component
C16_LastWins ==
    (pc = "parsing" /\ event.type = "Text" /\ stack # <<>>) =>
        Last(stack).text = <<event.text>>

\* C16: a text event sets the text of the Component on top of the stack,
\* replacing any earlier text (the last run wins, no concatenation), and
\* changes nothing else; with an empty stack it is discarded; text after a
\* closed child element is stored on the enclosing element, not on the
\* child.
C16_TextOnTop == [][C16_Step /\ C16_AfterChild]_vars /\ []C16_LastWins

\* <div> hello <img src="a&amp;b.png"/> a &lt; b: the second text run has
\* replaced the first on the div, the closed img has none
C16_Witness ==
    /\ pc = "parsing"
    /\ event = Ev("Text", 1, <<"a", " ", "<", " ", "b">>)
    /\ nread = 4
    /\ Len(stack) = 1
    /\ stack[1].text = <<<<"a", " ", "<", " ", "b">>>>
    /\ Len(stack[1].children) = 1
    /\ stack[1].children[1].text = <<>>
-----------------------------------------------------------------------------
(* C17 *)

C17_Prefixes == {<<"b", "g", "-", "[", "#">>, <<"t", "e", "x", "t", "-", "c", "o", "l", "o", "r", "-", "[", "#">>, <<"b", "o", "r", "d", "e", "r", "-", "[", "#">>}

C17_IsColour(t) == \E p \in C17_Prefixes : StartsWith(t, p)

\* the characters of colour class name t between its prefix and its final
\* character
C17_Payload(t) ==
    LET p == CHOOSE q \in C17_Prefixes : StartsWith(t, q)
    IN  SubSeq(t, Len(p) + 1, Len(t) - 1)

\* the positions of the payload that are read: three pairs, and the alpha
\* pair of a payload of eight characters
C17_Read(payload) == IF Len(payload) = 8 THEN 1..8 ELSE 1..6

\* a colour class name with fewer than six digits or with a character that
\* is not a hex digit in a pair that is read
C17_Malformed(t) ==
    /\ C17_IsColour(t)
    /\ \/ Len(C17_Payload(t)) < 6
       \/ \E i \in C17_Read(C17_Payload(t)) : C17_Payload(t)[i] \notin HexDigits

\* a pair from_str_radix(.., 16) rejects: a character that is not a hex
\* digit, unless it is a plus sign before a hex digit
C17_BadPair(payload, i) ==
    \/ payload[i + 1] \notin HexDigits
    \/ payload[i] \notin HexDigits \cup {"+"}

\* a colour class name hex_to_rgba panics on
C17_Rejected(t) ==
    /\ C17_IsColour(t)
    /\ \/ Len(C17_Payload(t)) < 6
       \/ \E i \in {1, 3, 5} : C17_BadPair(C17_Payload(t), i)
       \/ Len(C17_Payload(t)) = 8 /\ C17_BadPair(C17_Payload(t), 7)

\* the class names set_attributes is called with when Component c is
\* rendered: those of c and of its descendants below div elements only
RECURSIVE C17_Applied(_)
C17_Applied(c) ==
    IF c.elem # s_div THEN <<>>
    ELSE C3_Tokens(c) \o Concat([i \in 1..Len(c.children) |-> C17_Applied(c.children[i])])

\* the render of the returned tree has ended: it returned or it panicked
C17_RenderEnded == result # <<>> /\ pc \in {"rendered", "panicked"}

\* the render aborts, with no element tree, exactly when Bad holds of a
\* class name it applies
C17_AbortsOn(Bad(_)) ==
    C17_RenderEnded =>
        LET applied == C17_Applied(result[1])
        IN  /\ pc = "panicked" <=> \E i \in 1..Len(applied) : Bad(applied[i])
            /\ pc = "panicked" => rendered = <<>>
            /\ pc = "rendered" => rendered # <<>>

\* C17 as claimed: a colour class name with fewer than six digits or a
\* non-hex character in a pair that is read aborts the whole render and no
\* element tree is returned; every other malformed class name (unknown
\* class, unparsable length) lets the render complete.
C17_MalformedFatal == C17_AbortsOn(C17_Malformed)

\* what holds: the render aborts exactly on the colour class names that
\* hex_to_rgba rejects; a plus sign before a hex digit is read as a digit
\* pair (bg-[#+f0000] is the colour 0f0000)
C17_RejectedFatal == C17_AbortsOn(C17_Rejected)

\* <div class="bg-[#+f0000]"/> has been rendered
C17_SignedPair ==
    /\ pc = "rendered"
    /\ result[1].elem = s_div
    /\ C3_Tokens(result[1]) = <<<<"b", "g", "-", "[", "#", "+", "f", "0", "0", "0", "0", "]">>>>
    /\ rendered[1].style # <<>>
    /\ rendered[1].style[1].color = [r |-> 15, g |-> 0, b |-> 0, a |-> 255]

====
